---- MODULE Spec2Model ----
(***************************************************************************)
(* Verification model of opencompat: the ChatGPT stream translator         *)
(* (StreamState.ProcessEvent, Stream.Next, BuildNonStreamingResponse), the *)
(* SSE handler of the HTTP front door, the credential store and the        *)
(* Copilot token exchange.                                                 *)
(*                                                                         *)
(* Strings are sequences of tokens, so that concatenation is \o and a      *)
(* comparison of two texts compares what was concatenated, in order.       *)
(***************************************************************************)
EXTENDS Integers, Sequences, FiniteSets, TLC

VARIABLES
    \* ---- chatgpt.Stream (provider.go) and its StreamState (part_004)
    state,            \* Stream.state: the StreamState record
    reasoningCompat,  \* Stream.reasoningCompat
    includeUsage,     \* Stream.includeUsage
    done,             \* Stream.done
    sentUsage,        \* Stream.sentUsage
    streamErr,        \* Stream.err # nil
    response,         \* Stream.response (built at EOF)
    pendingChunks,    \* Stream.pendingChunks
    respStatusOK,     \* Stream.resp.StatusCode = 200
    events,           \* history: the events ProcessEvent was called with
    emitted,          \* history: every chunk ProcessEvent returned, in order
    returned,         \* history: what successive Next calls returned
    \* ---- server.Handlers.handleStreaming (handlers.go)
    hpc,              \* position of the handler
    hstate,           \* the handler's StreamState
    hqueue,           \* chunks of the current event still to be written
    hevents,          \* history: the events the handler has read
    frames,           \* frames the handler wrote with success
    attempts,         \* every write the handler attempted, in order
    clientGone,       \* the client has disconnected / the context is cancelled
    goneAt,           \* Len(attempts) when the client went away
    hUsage,           \* includeUsage of the handled request
    \* ---- auth.Store (part_016)
    disk,             \* providerID -> credentials file content
    cache,            \* Store.cache: providerID -> reference into heap
    heap,             \* the credential objects; a reference is an index
    saved,            \* history: providerID -> the credential last saved
    lastGet,          \* history: what the last Get* call returned
    refreshLock,      \* Store.refreshMu: providerID -> holder
    now,              \* the clock
    tpc,              \* thread -> position inside its store operation
    tloc,             \* thread -> locals of its store operation
    posts,            \* history: the POSTs made to token_url
    postsInFlight,    \* threads inside the POST of RefreshOAuth
    \* ---- copilot.Client (part_007)
    copilotToken,     \* Client.copilotToken
    cmu,              \* Client.mu: readers and writer
    cpc,              \* caller -> position inside getCopilotToken
    cret,             \* caller -> what getCopilotToken returned
    exchanges,        \* history: token-exchange GETs started, and those in flight
    cnow,             \* the clock of the Copilot client
    \* ---- cmdServe (main.go), Server (server.go) and chatgpt.InstructionsCache (part_005)
    srv,              \* position of cmdServe: providers initialised, started, listening
    instrCache,       \* InstructionsCache.cache: prompt file -> entry
    instrDisk,        \* the disk cache: prompt file -> content
    instrNow,         \* the clock of the instructions cache
    instrLoops,       \* the files left in the running Prefetch, refreshAll and RefreshAll
    instrBg,          \* the refresh goroutines Get has spawned and that are still to fetch
    instrSaves,       \* the saveToDisk goroutines still to write
    instrGet,         \* history: what the last InstructionsCache.Get returned
    instrGood,        \* history: prompt file -> the entry of its last load that succeeded
    \* ---- copilot.ModelsCache background refresh (copilot/models.go)
    cacheTTL,         \* ModelsCache.cacheTTL
    refreshStarted,   \* ModelsCache.refreshStarted
    mcMu,             \* ModelsCache.mu: the goroutine that holds it, or 0
    stopRefresh,      \* ModelsCache.stopRefresh is closed
    refreshDone,      \* ModelsCache.refreshDone is closed
    mcTask,           \* the background tasks created, and the position of the task
    mcpc,             \* goroutine -> the call it is in and its position
    mcCalls,          \* history: the calls of Start/StopBackgroundRefresh made
    mcPanic,          \* a close of a closed channel has panicked
    \* ---- one call of a function of the api and chatgpt packages
    fnArg,            \* the arguments of the call
    fnRes,            \* what the call returned or wrote, once it has run
    \* ---- sse.Reader (part_018)
    sseInput,         \* the events that were serialized into the body
    sseLines,         \* Reader.reader: the lines of the body not read yet
    sseDone,          \* Reader.done
    sseOut,           \* history: what the successive ReadEvent calls returned
    \* ---- provider.Registry (registry.go) and Handlers.ChatCompletions (handlers.go)
    providers,        \* Registry.providers: the ids of the active providers
    chatReq,          \* the chat-completion request being handled
    chatPc,           \* position of ChatCompletions
    chatResp,         \* the response ChatCompletions has written
    upstreamSent,     \* history: the requests sent upstream for this request
    \* ---- copilot.ModelsCache.GetModels (copilot/models.go)
    models,           \* ModelsCache.models: the ids of the cached list
    fetchedAt,        \* ModelsCache.fetchedAt
    gmNow,            \* the clock GetModels reads
    gmDisk,           \* models.json: whether it can be read, and its list
    gmSaves,          \* saveToDisk goroutines started and not yet run
    gmpc,             \* position of each GetModels caller
    gmCalls,          \* history: GetModels and RefreshModels calls made
    lastModels,       \* history: what the last GetModels call of each caller saw and returned
    modelIDs,         \* ModelsCache.modelIDs: the ids that map to true
    smPending,        \* the id of a SupportsModel call that is inside GetModels
    lastSupports,     \* history: the id and the answer of each caller's last SupportsModel
    \* ---- copilot.Stream (copilot/stream.go)
    csEvents,         \* the upstream events not yet read
    csStream,         \* the copilot.Stream object
    csOut,            \* history: what the Next calls returned
    csChunks,         \* history: the chunks parsed from the upstream
    \* ---- chatgpt.Client and its background refresh (chatgpt/client.go, part_005)
    cancelRefresh,    \* Client.cancelRefresh is not nil
    refreshContext,   \* Client.refreshContext: "none", "live" or "done" (cancelled)
    bgTask,           \* the refresh goroutine: its position and the files left in refreshAll
    promptCache,      \* InstructionsCache.cache: prompt file -> the tick of its last refresh
    bgTicks,          \* the times the ticker has fired
    closed,           \* history: Client.Close has returned
    \* ---- an SSE body that ends inside an event (part_018)
    ssePartial        \* the event cut off by the end of the body: its complete lines and its unterminated last line

streamVars == <<state, reasoningCompat, includeUsage, done, sentUsage, streamErr,
                response, pendingChunks, respStatusOK, events, emitted, returned>>
handlerVars == <<hpc, hstate, hqueue, hevents, frames, attempts, clientGone, goneAt, hUsage>>
storeVars == <<disk, cache, heap, saved, lastGet, refreshLock, now, tpc, tloc, posts,
               postsInFlight>>
copilotVars == <<copilotToken, cmu, cpc, cret, exchanges, cnow>>
instrVars == <<srv, instrCache, instrDisk, instrNow, instrLoops, instrBg, instrSaves, instrGet, instrGood>>
modelsVars == <<cacheTTL, refreshStarted, mcMu, stopRefresh, refreshDone, mcTask, mcpc, mcCalls, mcPanic>>
callVars == <<fnArg, fnRes>>
sseVars == <<sseInput, sseLines, sseDone, sseOut>>
chatVars == <<providers, chatReq, chatPc, chatResp, upstreamSent>>
getVars == <<models, fetchedAt, gmNow, gmDisk, gmSaves, gmpc, gmCalls, lastModels, modelIDs,
             smPending, lastSupports>>
csVars == <<csEvents, csStream, csOut, csChunks>>
closeVars == <<cancelRefresh, refreshContext, bgTask, promptCache, bgTicks, closed>>
bodyVars == <<ssePartial>>
vars == <<streamVars, handlerVars, storeVars, copilotVars, instrVars, modelsVars, callVars, sseVars, chatVars, getVars, csVars, closeVars, bodyVars>>

(***************************************************************************)
(* Bounds of the model.                                                    *)
(***************************************************************************)
MaxEvents == 3      \* events read from one upstream body
MaxToolEvents == 3  \* events of one upstream body in the tool-call runs
MaxCallEvents == 4  \* events of one upstream body in the function-call runs
MaxHandlerEvents == 3  \* events the handler reads from one upstream body
NumCallers == 2        \* goroutines calling GetOAuthCredentialsRefreshed
MaxNow == 60           \* the clock stops advancing here
MaxHeap == 6           \* credential objects a store caller may allocate
NumClients == 2        \* goroutines calling getCopilotToken
MaxExchanges == 3      \* token exchanges one run may start
MaxCopilotNow == 120   \* the Copilot client's clock stops advancing here
MaxEOFs == 2        \* Next calls made after the stream has ended
MaxReadErrors == 1  \* read errors of one upstream body

(***************************************************************************)
(* Texts.                                                                  *)
(***************************************************************************)
Str(tok) == <<tok>>
EmptyStr == <<>>
ThinkOpenTag == Str("<think>")
ThinkCloseTag == Str("</think>")
Newline == Str("\n")
EmptyObject == <<"{", "}">>      \* the JSON text {}

RECURSIVE Concat(_)
Concat(seqOfStr) ==
    IF seqOfStr = <<>> THEN <<>> ELSE Head(seqOfStr) \o Concat(Tail(seqOfStr))

SeqMap(Op(_), sq) == [i \in 1..Len(sq) |-> Op(sq[i])]

CountOf(tok, str) == Cardinality({i \in 1..Len(str) : str[i] = tok})

Max(a, b) == IF a >= b THEN a ELSE b


(***************************************************************************)
(* Go maps: functions with a finite, changing domain.                      *)
(***************************************************************************)
EmptyMap == <<>>
Has(m, k) == k \in DOMAIN m
Put(m, k, v) == (k :> v) @@ m
Del(m, k) == [x \in (DOMAIN m) \ {k} |-> m[x]]

(***************************************************************************)
(* api.Usage, api.ToolCall, api.Delta, api.ChatCompletionChunk.            *)
(***************************************************************************)
NoUsage == [present |-> FALSE, total |-> 0]
SomeUsage(n) == [present |-> TRUE, total |-> n]

NullFinish == "null"

ToolCall(id, name, args) ==
    [ID |-> id, Type |-> "function", Name |-> name, Arguments |-> args]

\* One entry of delta.tool_calls; Index is always set in a streamed entry.
ToolDelta(index, id, type, name, args) ==
    [Index |-> index, ID |-> id, Type |-> type, Name |-> name, Arguments |-> args]

EmptyDelta ==
    [Role |-> "", Content |-> EmptyStr, Refusal |-> EmptyStr,
     Reasoning |-> EmptyStr, ReasoningSummary |-> EmptyStr, ToolCalls |-> <<>>]

Chunk(delta, finish) ==
    [Choices |-> <<[Delta |-> delta, FinishReason |-> finish]>>, Usage |-> NoUsage]

RoleChunk == Chunk([EmptyDelta EXCEPT !.Role = "assistant"], NullFinish)
ContentChunk(text) == Chunk([EmptyDelta EXCEPT !.Content = text], NullFinish)
RefusalChunk(text) == Chunk([EmptyDelta EXCEPT !.Refusal = text], NullFinish)
ReasoningChunk(text) == Chunk([EmptyDelta EXCEPT !.Reasoning = text], NullFinish)
SummaryChunk(text) == Chunk([EmptyDelta EXCEPT !.ReasoningSummary = text], NullFinish)
ToolChunk(td) == Chunk([EmptyDelta EXCEPT !.ToolCalls = <<td>>], NullFinish)
FinishChunk(reason) == Chunk(EmptyDelta, reason)

\* What a reader of the stream sees of a chunk.
HasFinish(c) == Len(c.Choices) > 0 /\ c.Choices[1].FinishReason # NullFinish
FinishOf(c) == c.Choices[1].FinishReason
ContentOf(c) == IF Len(c.Choices) > 0 THEN c.Choices[1].Delta.Content ELSE EmptyStr
IsUsageOnly(c) == Len(c.Choices) = 0 /\ c.Usage.present
CarriesOutput(c) ==
    /\ Len(c.Choices) > 0
    /\ \/ c.Choices[1].Delta.Content # EmptyStr
       \/ c.Choices[1].Delta.Refusal # EmptyStr
       \/ c.Choices[1].Delta.Reasoning # EmptyStr
       \/ c.Choices[1].Delta.ReasoningSummary # EmptyStr
       \/ c.Choices[1].Delta.ToolCalls # <<>>

(***************************************************************************)
(* StreamState (part_004:354-395).                                         *)
(***************************************************************************)
NewStreamState ==
    [ResponseID |-> "", CurrentContent |-> EmptyStr, Refusal |-> EmptyStr,
     ReasoningSummary |-> EmptyStr, ReasoningFull |-> EmptyStr,
     ToolCalls |-> EmptyMap, NextToolIndex |-> 0,
     FinishReason |-> "", Usage |-> NoUsage, ReasoningCompat |-> "none",
     ThinkTagOpen |-> FALSE, ThinkTagClosed |-> FALSE, SawOutput |-> FALSE,
     SentStopChunk |-> FALSE, PendingSummaryNewline |-> FALSE,
     ErrorMessage |-> "", WebSearchState |-> EmptyMap,
     WebSearchIndex |-> EmptyMap]

SetReasoningCompat(s, mode) == [s EXCEPT !.ReasoningCompat = mode]

\* What ProcessEvent returns, with the state it leaves.
Result(s, chunks) == [s |-> s, chunks |-> chunks, err |-> FALSE]
Failure(s) == [s |-> s, chunks |-> <<>>, err |-> TRUE]

(***************************************************************************)
(* Upstream events (types.go:71-136) and their payloads.                   *)
(***************************************************************************)
NoParams == [present |-> FALSE, Query |-> "", Domains |-> <<>>, MaxResults |-> 0,
             Recency |-> ""]
Params(q, d, m, r) == [present |-> TRUE, Query |-> q, Domains |-> d,
                       MaxResults |-> m, Recency |-> r]

\* OutputItem / WebSearchCallItem; present = FALSE is the nil pointer.
NoItem == [present |-> FALSE, Type |-> "", ID |-> "", CallID |-> "", Name |-> "",
           Arguments |-> EmptyStr, Query |-> "", Parameters |-> NoParams]
Item(type, id, callID, name, args, query, params) ==
    [present |-> TRUE, Type |-> type, ID |-> id, CallID |-> callID, Name |-> name,
     Arguments |-> args, Query |-> query, Parameters |-> params]

BaseEvent ==
    [Event |-> "", malformed |-> FALSE, ResponseID |-> "", Delta |-> EmptyStr,
     OutputIndex |-> 0, Item |-> NoItem, ItemID |-> "", Query |-> "",
     Params |-> NoParams, Usage |-> NoUsage, IncompleteReason |-> "",
     HasError |-> FALSE, Message |-> "", PartType |-> "", PartText |-> EmptyStr]

Ev(name) == [BaseEvent EXCEPT !.Event = name]

(***************************************************************************)
(* The think tag is closed by the same code in three handlers:             *)
(* output_text.delta, response.completed and response.incomplete.          *)
(***************************************************************************)
ThinkTagToClose(s) ==
    s.ReasoningCompat = "think-tags" /\ s.ThinkTagOpen /\ ~s.ThinkTagClosed

CloseThinkTag(s) ==
    IF ThinkTagToClose(s)
    THEN [s |-> [s EXCEPT !.ThinkTagOpen = FALSE, !.ThinkTagClosed = TRUE],
          chunks |-> <<ContentChunk(ThinkCloseTag)>>]
    ELSE [s |-> s, chunks |-> <<>>]

\* StopChunkOnce without the SentStopChunk test.
StopChunkAlways(s, reason) ==
    [s |-> [s EXCEPT !.SentStopChunk = TRUE], chunks |-> <<FinishChunk(reason)>>]

\* The terminal chunk, sent unless one was sent before.
StopChunkOnce(s, reason) ==
    IF ~s.SentStopChunk
    THEN [s |-> [s EXCEPT !.SentStopChunk = TRUE], chunks |-> <<FinishChunk(reason)>>]
    ELSE [s |-> s, chunks |-> <<>>]

(***************************************************************************)
(* ProcessEvent, one operator per case of its switch.                      *)
(***************************************************************************)
OnResponseCreated(s, ev) ==
    IF ev.malformed THEN Failure(s)
    ELSE Result([s EXCEPT !.ResponseID = ev.ResponseID], <<RoleChunk>>)

OnOutputTextDelta(s, ev) ==
    IF ev.malformed THEN Failure(s)
    ELSE LET c == CloseThinkTag(s)
             s2 == [c.s EXCEPT !.SawOutput = TRUE,
                               !.CurrentContent = @ \o ev.Delta]
         IN Result(s2, c.chunks \o <<ContentChunk(ev.Delta)>>)

OnOutputTextDone(s, ev) ==
    LET t == StopChunkOnce(s, "stop") IN Result(t.s, t.chunks)

OnReasoningSummaryPartAdded(s, ev) ==
    IF /\ s.ReasoningCompat \in {"think-tags", "o3"}
       /\ (s.ReasoningSummary # EmptyStr \/ s.ReasoningFull # EmptyStr)
    THEN Result([s EXCEPT !.PendingSummaryNewline = TRUE], <<>>)
    ELSE Result(s, <<>>)

\* a test that forgets the tag was closed
ThinkTagToOpenAgain(s) == ~s.ThinkTagOpen

\* line 581: open the think tag if it is neither open nor closed
ThinkTagToOpen(s) == ~s.ThinkTagOpen /\ ~s.ThinkTagClosed

\* case "think-tags" of the reasoning deltas
ReasoningThinkTags(s, ev) ==
    LET opening == ThinkTagToOpen(s)
        s1 == IF opening THEN [s EXCEPT !.ThinkTagOpen = TRUE] ELSE s
        live == s1.ThinkTagOpen /\ ~s1.ThinkTagClosed
        nl == live /\ s1.PendingSummaryNewline
        s2 == IF nl THEN [s1 EXCEPT !.PendingSummaryNewline = FALSE] ELSE s1
    IN Result(s2,
              (IF opening THEN <<ContentChunk(ThinkOpenTag)>> ELSE <<>>)
              \o (IF nl THEN <<ContentChunk(Newline)>> ELSE <<>>)
              \o (IF live THEN <<ContentChunk(ev.Delta)>> ELSE <<>>))

\* case "o3" of the reasoning deltas
ReasoningO3(s, ev) ==
    LET nl == s.PendingSummaryNewline
        s1 == IF nl THEN [s EXCEPT !.PendingSummaryNewline = FALSE] ELSE s
    IN Result(s1,
              (IF nl THEN <<ReasoningChunk(Newline)>> ELSE <<>>)
              \o <<ReasoningChunk(ev.Delta)>>)

\* case "legacy" of the reasoning deltas
ReasoningLegacy(s, ev) ==
    IF ev.Event # "response.reasoning_summary_text.delta"
    THEN Result(s, <<>>)
    ELSE Result(s, <<SummaryChunk(ev.Delta)>>)

OnReasoningDelta(s, ev) ==
    IF ev.malformed THEN Failure(s)
    ELSE LET s1 == IF ev.Event = "response.reasoning_summary_text.delta"
                   THEN [s EXCEPT !.ReasoningSummary = @ \o ev.Delta]
                   ELSE [s EXCEPT !.ReasoningFull = @ \o ev.Delta]
         IN CASE s1.ReasoningCompat = "none" -> Result(s1, <<>>)
              [] s1.ReasoningCompat = "think-tags" -> ReasoningThinkTags(s1, ev)
              [] s1.ReasoningCompat = "o3" -> ReasoningO3(s1, ev)
              [] s1.ReasoningCompat = "legacy" -> ReasoningLegacy(s1, ev)
              [] OTHER -> Result(s1, <<>>)

OnFunctionCallArgumentsDelta(s, ev) ==
    IF ev.malformed THEN Failure(s)
    ELSE IF ~Has(s.ToolCalls, ev.OutputIndex) THEN Result(s, <<>>)
    ELSE Result([s EXCEPT !.ToolCalls[ev.OutputIndex].Arguments = @ \o ev.Delta],
                <<ToolChunk(ToolDelta(ev.OutputIndex, "", "", "", ev.Delta))>>)

\* strings.HasSuffix(t, "_call") && t != "message", over the item types modelled
CallTypes == {"function_call", "web_search_call", "mcp_call"}
IsCallType(t) == t \in CallTypes
\* strings.TrimSuffix(t, "_call")
TrimCallSuffix(t) ==
    CASE t = "function_call" -> "function"
      [] t = "web_search_call" -> "web_search"
      [] t = "mcp_call" -> "mcp"
      [] OTHER -> t

\* callID := item.CallID; if callID == "" { callID = item.ID }
CallIDOf(item) == IF item.CallID # "" THEN item.CallID ELSE item.ID

NewAccum == [Query |-> "", Domains |-> <<>>, MaxResults |-> 0, Recency |-> ""]

\* the registration of a web_search_call in output_item.added (749-753)
TrackWebSearch(s, callID, index) ==
    [s EXCEPT !.WebSearchIndex = Put(@, callID, index),
              !.WebSearchState = Put(@, callID, NewAccum)]

OnOutputItemAdded(s, ev) ==
    IF ev.malformed THEN Failure(s)
    ELSE IF ~IsCallType(ev.Item.Type) THEN Result(s, <<>>)
    ELSE LET callID == CallIDOf(ev.Item)
             name == IF ev.Item.Name # "" THEN ev.Item.Name
                     ELSE TrimCallSuffix(ev.Item.Type)
             s1 == [s EXCEPT
                      !.ToolCalls = Put(@, ev.OutputIndex,
                                        ToolCall(callID, name, EmptyStr)),
                      !.NextToolIndex = IF ev.OutputIndex >= @
                                        THEN ev.OutputIndex + 1 ELSE @]
             s2 == IF ev.Item.Type = "web_search_call"
                   THEN TrackWebSearch(s1, callID, ev.OutputIndex) ELSE s1
         IN Result(s2, <<ToolChunk(ToolDelta(ev.OutputIndex, callID, "function",
                                             name, EmptyStr))>>)

(***************************************************************************)
(* Web-search parameter accumulator (part_004:404-464).                    *)
(***************************************************************************)
\* One source of parameters: a direct query and an optional parameters object.
\* A field is taken only while the accumulator's field is empty.
MergeInto(accum, query, params) ==
    LET a1 == IF query # "" /\ accum.Query = ""
              THEN [accum EXCEPT !.Query = query] ELSE accum
    IN IF ~params.present THEN a1
       ELSE LET a2 == IF params.Query # "" /\ a1.Query = ""
                      THEN [a1 EXCEPT !.Query = params.Query] ELSE a1
                a3 == IF Len(params.Domains) > 0 /\ Len(a2.Domains) = 0
                      THEN [a2 EXCEPT !.Domains = params.Domains] ELSE a2
                a4 == IF params.MaxResults > 0 /\ a3.MaxResults = 0
                      THEN [a3 EXCEPT !.MaxResults = params.MaxResults] ELSE a3
            IN IF params.Recency # "" /\ a4.Recency = ""
               THEN [a4 EXCEPT !.Recency = params.Recency] ELSE a4

\* mergeWebSearchParams(callID, item, data): item first, then the event data.
mergeWebSearchParams(s, callID, item, data) ==
    LET accum == IF Has(s.WebSearchState, callID) THEN s.WebSearchState[callID]
                 ELSE NewAccum
        fromItem == IF item.present
                    THEN MergeInto(accum, item.Query, item.Parameters) ELSE accum
        fromData == MergeInto(fromItem, data.Query, data.Params)
    IN [s EXCEPT !.WebSearchState = Put(@, callID, fromData)]

\* json.Marshal of {query, domains, max_results, recency}, all omitempty.
MarshalParams(p) ==
    <<"{">>
    \o (IF p.Query # "" THEN <<"query", p.Query>> ELSE <<>>)
    \o (IF Len(p.Domains) > 0 THEN <<"domains">> \o p.Domains ELSE <<>>)
    \o (IF p.MaxResults # 0 THEN <<"max_results", ToString(p.MaxResults)>> ELSE <<>>)
    \o (IF p.Recency # "" THEN <<"recency", p.Recency>> ELSE <<>>)
    \o <<"}">>

serializeWebSearchArgs(s, callID) ==
    IF ~Has(s.WebSearchState, callID) THEN EmptyObject
    ELSE MarshalParams(s.WebSearchState[callID])

\* FinalizeFunctionCall without the test for an empty payload.
FinalizeFunctionCallAlways(s, ev) ==
    IF Has(s.ToolCalls, ev.OutputIndex)
    THEN [s EXCEPT !.ToolCalls[ev.OutputIndex].Arguments = ev.Item.Arguments]
    ELSE s

\* output_item.done of a function_call: only the stored arguments change.
FinalizeFunctionCall(s, ev) ==
    IF Has(s.ToolCalls, ev.OutputIndex) /\ ev.Item.Arguments # EmptyStr
    THEN [s EXCEPT !.ToolCalls[ev.OutputIndex].Arguments = ev.Item.Arguments]
    ELSE s

\* The indices output_item.done may find for callID: the web-search index, or
\* else any entry of ToolCalls with that ID (Go's map iteration order is not
\* specified), or -1.
DoneIndices(s, callID) ==
    IF Has(s.WebSearchIndex, callID) THEN {s.WebSearchIndex[callID]}
    ELSE LET hits == {i \in DOMAIN s.ToolCalls : s.ToolCalls[i].ID = callID}
         IN IF hits = {} THEN {-1} ELSE hits

DoneArguments(s, ev, callID) ==
    IF ev.Item.Arguments # EmptyStr THEN ev.Item.Arguments
    ELSE IF ev.Item.Type = "web_search_call" /\ ev.Item.Parameters.present
         THEN MarshalParams(ev.Item.Parameters)
    ELSE IF ev.Item.Type = "web_search_call" THEN serializeWebSearchArgs(s, callID)
    ELSE EmptyStr

\* The set of outcomes of output_item.done.
OnOutputItemDone(s, ev) ==
    IF ev.malformed THEN {Failure(s)}
    ELSE IF ~IsCallType(ev.Item.Type) THEN {Result(s, <<>>)}
    ELSE IF ev.Item.Type = "function_call"
         THEN {Result(FinalizeFunctionCall(s, ev), <<>>)}
    ELSE LET callID == CallIDOf(ev.Item)
             args0 == DoneArguments(s, ev, callID)
             args == IF args0 = EmptyStr THEN EmptyObject ELSE args0
         IN { IF idx >= 0
              THEN Result(IF Has(s.ToolCalls, idx)
                          THEN [s EXCEPT !.ToolCalls[idx].Arguments = args]
                          ELSE s,
                          <<ToolChunk(ToolDelta(idx, "", "", "", args))>>)
              ELSE Result(s, <<>>)
              : idx \in DoneIndices(s, callID) }

\* callID of a web-search progress event
ProgressCallID(ev) ==
    IF ev.ItemID # "" THEN ev.ItemID
    ELSE IF ev.Item.present THEN CallIDOf(ev.Item)
    ELSE ""

\* The first progress event of an untracked call-id takes the next free index.
AllocateWebSearchIndex(s, callID) ==
    LET idx == s.NextToolIndex
    IN [s EXCEPT !.NextToolIndex = @ + 1,
                 !.WebSearchIndex = Put(@, callID, idx),
                 !.ToolCalls = IF Has(@, idx) THEN @
                               ELSE Put(@, idx, ToolCall(callID, "web_search",
                                                          EmptyStr))]

OnWebSearchCall(s, ev) ==
    IF ev.malformed THEN Failure(s)
    ELSE LET callID == ProgressCallID(ev) IN
    IF callID = "" THEN Result(s, <<>>)
    ELSE LET s1 == mergeWebSearchParams(s, callID, ev.Item, ev)
             isFirstChunk == ~Has(s1.WebSearchIndex, callID)
             s2 == IF isFirstChunk THEN AllocateWebSearchIndex(s1, callID) ELSE s1
             outputIndex == s2.WebSearchIndex[callID]
             argsJSON == serializeWebSearchArgs(s2, callID)
             s3 == IF Has(s2.ToolCalls, outputIndex)
                   THEN [s2 EXCEPT !.ToolCalls[outputIndex].Arguments = argsJSON]
                   ELSE s2
         IN Result(s3,
                   <<ToolChunk(IF isFirstChunk
                               THEN ToolDelta(outputIndex, callID, "function",
                                              "web_search", argsJSON)
                               ELSE ToolDelta(outputIndex, "", "", "", argsJSON))>>)

\* finishReason of response.completed
CompletedFinishReason(s) ==
    IF DOMAIN s.ToolCalls # {} THEN "tool_calls" ELSE "stop"

OnResponseCompleted(s, ev) ==
    IF ev.malformed THEN Failure(s)
    ELSE LET c == CloseThinkTag(s)
             finishReason == CompletedFinishReason(c.s)
             s1 == [c.s EXCEPT !.FinishReason = finishReason,
                               !.Usage = IF ev.Usage.present THEN ev.Usage ELSE @]
             t == StopChunkOnce(s1, finishReason)
         IN Result(t.s, c.chunks \o t.chunks)

OnResponseFailed(s, ev) ==
    IF ev.malformed THEN Failure(s)
    ELSE Result([s EXCEPT !.FinishReason = "error",
                          !.ErrorMessage = IF ev.HasError THEN ev.Message ELSE @],
                <<>>)

OnError(s, ev) ==
    IF ev.malformed THEN Failure(s)
    ELSE Result([s EXCEPT !.FinishReason = "error", !.ErrorMessage = ev.Message],
                <<>>)

IncompleteFinishReason(ev) ==
    IF ev.IncompleteReason = "content_filter" THEN "content_filter" ELSE "length"

OnResponseIncomplete(s, ev) ==
    IF ev.malformed THEN Failure(s)
    ELSE LET c == CloseThinkTag(s)
             finishReason == IncompleteFinishReason(ev)
             s1 == [c.s EXCEPT !.FinishReason = finishReason,
                               !.Usage = IF ev.Usage.present THEN ev.Usage ELSE @]
             t == StopChunkOnce(s1, finishReason)
         IN Result(t.s, c.chunks \o t.chunks)

OnResponseCancelled(s, ev) ==
    LET t == StopChunkOnce([s EXCEPT !.FinishReason = "stop"], "stop")
    IN Result(t.s, t.chunks)

OnContentPartAdded(s, ev) ==
    IF ev.malformed THEN Failure(s)
    ELSE IF ev.PartType = "refusal" /\ ev.PartText # EmptyStr
    THEN Result([s EXCEPT !.Refusal = @ \o ev.PartText], <<RefusalChunk(ev.PartText)>>)
    ELSE Result(s, <<>>)

\* ProcessEvent: the set of its possible outcomes (one, but for Go's map order).
ProcessEvent(s, ev) ==
    CASE ev.Event = "response.created" -> {OnResponseCreated(s, ev)}
      [] ev.Event = "response.output_text.delta" -> {OnOutputTextDelta(s, ev)}
      [] ev.Event = "response.output_text.done" -> {OnOutputTextDone(s, ev)}
      [] ev.Event = "response.reasoning_summary_part.added" ->
            {OnReasoningSummaryPartAdded(s, ev)}
      [] ev.Event \in {"response.reasoning_summary_text.delta",
                       "response.reasoning_text.delta"} -> {OnReasoningDelta(s, ev)}
      [] ev.Event = "response.function_call_arguments.delta" ->
            {OnFunctionCallArgumentsDelta(s, ev)}
      [] ev.Event = "response.output_item.added" -> {OnOutputItemAdded(s, ev)}
      [] ev.Event = "response.output_item.done" -> OnOutputItemDone(s, ev)
      [] ev.Event \in {"response.web_search_call.searching",
                       "response.web_search_call.in_progress",
                       "response.web_search_call.completed"} ->
            {OnWebSearchCall(s, ev)}
      [] ev.Event = "response.completed" -> {OnResponseCompleted(s, ev)}
      [] ev.Event = "response.failed" -> {OnResponseFailed(s, ev)}
      [] ev.Event = "error" -> {OnError(s, ev)}
      [] ev.Event = "response.incomplete" -> {OnResponseIncomplete(s, ev)}
      [] ev.Event = "response.cancelled" -> {OnResponseCancelled(s, ev)}
      [] ev.Event = "response.content_part.added" -> {OnContentPartAdded(s, ev)}
      [] OTHER -> {Result(s, <<>>)}

(***************************************************************************)
(* GetUsageChunk and BuildNonStreamingResponse (part_004:1156-1264).       *)
(***************************************************************************)
NoChunk == [Choices |-> <<>>, Usage |-> NoUsage]     \* a nil chunk

GetUsageChunk(s) ==
    IF ~s.Usage.present THEN NoChunk
    ELSE [Choices |-> <<>>, Usage |-> s.Usage]

\* reasoningText of BuildNonStreamingResponse
ReasoningText(s) ==
    IF s.ReasoningFull # EmptyStr
    THEN (IF s.ReasoningSummary # EmptyStr THEN s.ReasoningSummary \o Newline
          ELSE EmptyStr) \o s.ReasoningFull
    ELSE s.ReasoningSummary

\* content of BuildNonStreamingResponse
ResponseContent(s) ==
    IF s.ReasoningCompat = "think-tags" /\ ReasoningText(s) # EmptyStr
    THEN ThinkOpenTag \o ReasoningText(s) \o ThinkCloseTag \o s.CurrentContent
    ELSE s.CurrentContent

\* the tool calls by ascending index, from i to maxIdx
RECURSIVE ToolCallsFrom(_, _, _)
ToolCallsFrom(tcs, i, maxIdx) ==
    IF i > maxIdx THEN <<>>
    ELSE (IF Has(tcs, i) THEN <<tcs[i]>> ELSE <<>>) \o ToolCallsFrom(tcs, i + 1, maxIdx)

MaxIndex(tcs) ==
    IF \E i \in DOMAIN tcs : i > 0
    THEN CHOOSE i \in DOMAIN tcs : \A j \in DOMAIN tcs : j <= i
    ELSE 0

ResponseToolCalls(s) ==
    IF DOMAIN s.ToolCalls = {} THEN <<>>
    ELSE ToolCallsFrom(s.ToolCalls, 0, MaxIndex(s.ToolCalls))

NoResponse == [built |-> FALSE, ID |-> "", Content |-> EmptyStr,
               Reasoning |-> EmptyStr, ReasoningSummary |-> EmptyStr,
               Refusal |-> EmptyStr, ToolCalls |-> <<>>, FinishReason |-> "",
               Usage |-> NoUsage]

BuildNonStreamingResponse(s) ==
    [built |-> TRUE,
     ID |-> s.ResponseID,
     Content |-> ResponseContent(s),
     Reasoning |-> IF s.ReasoningCompat = "o3" THEN ReasoningText(s) ELSE EmptyStr,
     ReasoningSummary |-> IF s.ReasoningCompat = "legacy" THEN s.ReasoningSummary
                          ELSE EmptyStr,
     Refusal |-> s.Refusal,
     ToolCalls |-> ResponseToolCalls(s),
     FinishReason |-> s.FinishReason,
     Usage |-> s.Usage]

(***************************************************************************)
(* chatgpt.Stream.Next (provider.go:185-245).  A call of Next either       *)
(* returns a buffered chunk, or reads events until one yields a chunk, the *)
(* body ends or an error occurs; each read of the loop is one step.        *)
(***************************************************************************)
RetChunk(c) == [kind |-> "chunk", chunk |-> c]
RetEOF == [kind |-> "EOF", chunk |-> NoChunk]
RetError == [kind |-> "error", chunk |-> NoChunk]

CountKind(sq, k) == Cardinality({i \in 1..Len(sq) : sq[i].kind = k})

othersOfStream == <<handlerVars, storeVars, copilotVars, instrVars, modelsVars, callVars, sseVars, chatVars, getVars, csVars, closeVars, bodyVars>>

\* if len(s.pendingChunks) > 0 { return s.pendingChunks[0] }
NextPending ==
    /\ Len(pendingChunks) > 0
    /\ returned' = Append(returned, RetChunk(Head(pendingChunks)))
    /\ pendingChunks' = Tail(pendingChunks)
    /\ UNCHANGED <<state, reasoningCompat, includeUsage, done, sentUsage, streamErr,
                   response, respStatusOK, events, emitted, othersOfStream>>

\* if s.done { return nil, io.EOF }
NextAfterDone ==
    /\ Len(pendingChunks) = 0
    /\ done
    /\ CountKind(returned, "EOF") < MaxEOFs
    /\ returned' = Append(returned, RetEOF)
    /\ UNCHANGED <<state, reasoningCompat, includeUsage, done, sentUsage, streamErr,
                   response, pendingChunks, respStatusOK, events, emitted,
                   othersOfStream>>

\* if s.resp.StatusCode != http.StatusOK { s.done = true; return nil, s.err }
NextBadStatus ==
    /\ Len(pendingChunks) = 0
    /\ ~done
    /\ ~respStatusOK
    /\ state' = SetReasoningCompat(state, reasoningCompat)
    /\ done' = TRUE
    /\ streamErr' = TRUE
    /\ returned' = Append(returned, RetError)
    /\ UNCHANGED <<reasoningCompat, includeUsage, sentUsage, response, pendingChunks,
                   respStatusOK, events, emitted, othersOfStream>>

\* NextEvent without the buffer: the first chunk is returned, the rest is lost.
NextEventUnbuffered(ev) ==
    /\ Len(pendingChunks) = 0
    /\ ~done
    /\ respStatusOK
    /\ \E r \in ProcessEvent(SetReasoningCompat(state, reasoningCompat), ev) :
          /\ state' = r.s
          /\ events' = Append(events, ev)
          /\ emitted' = emitted \o r.chunks
          /\ IF r.err
             THEN /\ streamErr' = TRUE
                  /\ returned' = Append(returned, RetError)
             ELSE /\ streamErr' = streamErr
                  /\ IF Len(r.chunks) > 0
                     THEN returned' = Append(returned, RetChunk(Head(r.chunks)))
                     ELSE returned' = returned
          /\ pendingChunks' = pendingChunks
    /\ UNCHANGED <<reasoningCompat, includeUsage, done, sentUsage, response,
                   respStatusOK, othersOfStream>>

\* ReadEvent returned ev: ProcessEvent, return the first chunk, buffer the rest;
\* with no chunk the loop reads on.
NextEvent(ev) ==
    /\ Len(pendingChunks) = 0
    /\ ~done
    /\ respStatusOK
    /\ \E r \in ProcessEvent(SetReasoningCompat(state, reasoningCompat), ev) :
          /\ state' = r.s
          /\ events' = Append(events, ev)
          /\ emitted' = emitted \o r.chunks
          /\ IF r.err
             THEN /\ streamErr' = TRUE
                  /\ returned' = Append(returned, RetError)
                  /\ pendingChunks' = pendingChunks
             ELSE /\ streamErr' = streamErr
                  /\ IF Len(r.chunks) > 0
                     THEN /\ returned' = Append(returned, RetChunk(Head(r.chunks)))
                          /\ pendingChunks' = pendingChunks \o Tail(r.chunks)
                     ELSE /\ returned' = returned
                          /\ pendingChunks' = pendingChunks
    /\ UNCHANGED <<reasoningCompat, includeUsage, done, sentUsage, response,
                   respStatusOK, othersOfStream>>

\* NextEOF without s.done = true.
NextEOFNotDone ==
    /\ Len(pendingChunks) = 0
    /\ ~done
    /\ respStatusOK
    /\ LET s1 == SetReasoningCompat(state, reasoningCompat)
           usageChunk == GetUsageChunk(s1)
       IN /\ state' = s1
          /\ response' = BuildNonStreamingResponse(s1)
          /\ sentUsage' = (sentUsage \/ includeUsage)
          /\ returned' = IF includeUsage /\ ~sentUsage /\ usageChunk # NoChunk
                         THEN Append(returned, RetChunk(usageChunk))
                         ELSE Append(returned, RetEOF)
          /\ done' = (returned'[Len(returned')].kind = "EOF")
    /\ UNCHANGED <<reasoningCompat, includeUsage, streamErr, pendingChunks,
                   respStatusOK, events, emitted, othersOfStream>>

\* ReadEvent returned io.EOF
NextEOF ==
    /\ Len(pendingChunks) = 0
    /\ ~done
    /\ respStatusOK
    /\ LET s1 == SetReasoningCompat(state, reasoningCompat)
           usageChunk == GetUsageChunk(s1)
       IN /\ state' = s1
          /\ done' = TRUE
          /\ response' = BuildNonStreamingResponse(s1)
          /\ sentUsage' = (sentUsage \/ includeUsage)
          /\ returned' = IF includeUsage /\ ~sentUsage /\ usageChunk # NoChunk
                         THEN Append(returned, RetChunk(usageChunk))
                         ELSE Append(returned, RetEOF)
    /\ UNCHANGED <<reasoningCompat, includeUsage, streamErr, pendingChunks,
                   respStatusOK, events, emitted, othersOfStream>>

\* ReadEvent returned another error
NextReadError ==
    /\ Len(pendingChunks) = 0
    /\ ~done
    /\ respStatusOK
    /\ CountKind(returned, "error") < MaxReadErrors
    /\ state' = SetReasoningCompat(state, reasoningCompat)
    /\ streamErr' = TRUE
    /\ returned' = Append(returned, RetError)
    /\ UNCHANGED <<reasoningCompat, includeUsage, done, sentUsage, response,
                   pendingChunks, respStatusOK, events, emitted, othersOfStream>>

(***************************************************************************)
(* The upstream events the runs draw from.                                 *)
(***************************************************************************)
TextDelta(d) == [Ev("response.output_text.delta") EXCEPT !.Delta = d]
SummaryDelta(d) == [Ev("response.reasoning_summary_text.delta") EXCEPT !.Delta = d]
FullDelta(d) == [Ev("response.reasoning_text.delta") EXCEPT !.Delta = d]
Created(id) == [Ev("response.created") EXCEPT !.ResponseID = id]
Completed(u) == [Ev("response.completed") EXCEPT !.Usage = u]
Incomplete(reason, u) ==
    [Ev("response.incomplete") EXCEPT !.IncompleteReason = reason, !.Usage = u]
Failed(msg) == [Ev("response.failed") EXCEPT !.HasError = TRUE, !.Message = msg]
ErrorEvent(msg) == [Ev("error") EXCEPT !.Message = msg]
RefusalPart(text) ==
    [Ev("response.content_part.added") EXCEPT !.PartType = "refusal", !.PartText = text]
ItemAdded(type, callID, index) ==
    [Ev("response.output_item.added") EXCEPT
        !.OutputIndex = index,
        !.Item = Item(type, callID, callID, "", EmptyStr, "", NoParams)]
ItemDone(type, callID, index, args, params) ==
    [Ev("response.output_item.done") EXCEPT
        !.OutputIndex = index,
        !.Item = Item(type, callID, callID, "", args, "", params)]
ArgsDelta(index, d) ==
    [Ev("response.function_call_arguments.delta") EXCEPT
        !.OutputIndex = index, !.Delta = d]
Searching(callID, query, params) ==
    [Ev("response.web_search_call.searching") EXCEPT
        !.ItemID = callID, !.Query = query, !.Params = params]
Malformed(name) == [Ev(name) EXCEPT !.malformed = TRUE]

\* text, reasoning and terminal events
TextEvents ==
    { TextDelta(Str("t")),
      Ev("response.output_text.done"),
      SummaryDelta(Str("s")),
      FullDelta(Str("f")),
      Completed(SomeUsage(5)),
      Incomplete("content_filter", NoUsage),
      Ev("response.cancelled"),
      Failed("boom"),
      ItemAdded("function_call", "c1", 0) }

CallIDs == {"c1", "c2"}
Indices == {0, 1}
SomeParams == Params("q3", <<"d1">>, 5, "week")

\* tool-call events of every kind, and the events that open a response
ToolEvents ==
    { ItemAdded(t, c[1], c[2]) : t \in {"function_call", "web_search_call"},
                                  c \in {<<"c1", 0>>, <<"c2", 0>>, <<"c2", 1>>} }
    \cup { ItemAdded("mcp_call", "c2", 1), ItemAdded("message", "m1", 0) }
    \cup { ArgsDelta(0, Str("x")), ArgsDelta(1, Str("y")) }
    \cup { ItemDone("function_call", "c1", 0, Str("z"), NoParams) }
    \cup { ItemDone("web_search_call", "c1", 0, EmptyStr, p) :
              p \in {NoParams, SomeParams} }
    \cup { ItemDone("mcp_call", "c2", 1, Str("z"), NoParams) }
    \cup { Searching("c1", q, NoParams) : q \in {"", "q1", "q2"} }
    \cup { Searching("c2", "q1", NoParams), Searching("c1", "", SomeParams),
           Searching("", "q1", NoParams) }
    \cup { Created("resp_1"), Ev("response.reasoning_summary_part.added"),
           SummaryDelta(Str("s")), RefusalPart(Str("no")), Completed(NoUsage),
           Malformed("response.output_text.delta") }

\* one or two function calls: added, argument deltas, done
CallEvents ==
    { ItemAdded("function_call", "c1", 0), ItemAdded("function_call", "c2", 1) }
    \cup { ArgsDelta(0, Str("x")), ArgsDelta(0, Str("y")), ArgsDelta(1, Str("x")) }
    \cup { ItemDone("function_call", "c1", 0, a, NoParams) :
              a \in {EmptyStr, Str("z"), <<"x", "y">>} }
    \cup { ItemDone("function_call", "c2", 1, EmptyStr, NoParams) }
    \cup { SummaryDelta(Str("s")), Completed(NoUsage) }

ReasoningCompatModes == {"none", "think-tags", "o3", "legacy"}

(***************************************************************************)
(* Initial values of the parts a run does not exercise.                    *)
(***************************************************************************)
StreamIdle ==
    /\ state = NewStreamState
    /\ reasoningCompat = "none"
    /\ includeUsage = FALSE
    /\ done = FALSE
    /\ sentUsage = FALSE
    /\ streamErr = FALSE
    /\ response = NoResponse
    /\ pendingChunks = <<>>
    /\ respStatusOK = TRUE
    /\ events = <<>>
    /\ emitted = <<>>
    /\ returned = <<>>

HandlerIdle ==
    /\ hpc = "idle"
    /\ hstate = NewStreamState
    /\ hqueue = <<>>
    /\ hevents = <<>>
    /\ frames = <<>>
    /\ attempts = <<>>
    /\ clientGone = FALSE
    /\ goneAt = 0
    /\ hUsage = FALSE

StoreIdle ==
    /\ disk = EmptyMap
    /\ cache = EmptyMap
    /\ heap = <<>>
    /\ saved = EmptyMap
    /\ lastGet = [valid |-> FALSE]
    /\ refreshLock = EmptyMap
    /\ now = 0
    /\ tpc = EmptyMap
    /\ tloc = EmptyMap
    /\ posts = <<>>
    /\ postsInFlight = {}

CopilotIdle ==
    /\ copilotToken = [present |-> FALSE, Token |-> 0, ExpiresAt |-> 0]
    /\ cmu = [readers |-> {}, writer |-> 0]
    /\ cpc = EmptyMap
    /\ cret = EmptyMap
    /\ exchanges = [started |-> 0, inFlight |-> {}]
    /\ cnow = 0

InstructionsIdle ==
    /\ srv = [pc |-> "idle", idx |-> 1, active |-> {}, inited |-> {}, started |-> {}]
    /\ instrCache = EmptyMap
    /\ instrDisk = EmptyMap
    /\ instrNow = 0
    /\ instrLoops = EmptyMap
    /\ instrBg = {}
    /\ instrSaves = {}
    /\ instrGet = [valid |-> FALSE]
    /\ instrGood = EmptyMap

ModelsCacheIdle ==
    /\ cacheTTL = 0
    /\ refreshStarted = FALSE
    /\ mcMu = 0
    /\ stopRefresh = FALSE
    /\ refreshDone = FALSE
    /\ mcTask = [created |-> 0, pc |-> "none"]
    /\ mcpc = EmptyMap
    /\ mcCalls = <<>>
    /\ mcPanic = FALSE

CallIdle ==
    /\ fnArg = <<>>
    /\ fnRes = [done |-> FALSE]

ReaderIdle ==
    /\ sseInput = <<>>
    /\ sseLines = <<>>
    /\ sseDone = FALSE
    /\ sseOut = <<>>

ChatIdle ==
    /\ providers = {}
    /\ chatReq = <<>>
    /\ chatPc = "idle"
    /\ chatResp = [done |-> FALSE]
    /\ upstreamSent = 0

GetModelsIdle ==
    /\ models = <<>>
    /\ fetchedAt = 0
    /\ gmNow = 0
    /\ gmDisk = [ok |-> FALSE, models |-> <<>>]
    /\ gmSaves = 0
    /\ gmpc = <<>>
    /\ gmCalls = 0
    /\ lastModels = <<>>
    /\ modelIDs = {}
    /\ smPending = <<>>
    /\ lastSupports = <<>>

CopilotStreamIdle ==
    /\ csEvents = <<>>
    /\ csStream = <<>>
    /\ csOut = <<>>
    /\ csChunks = <<>>

ClientIdle ==
    /\ cancelRefresh = FALSE
    /\ refreshContext = "none"
    /\ bgTask = [pc |-> "none", todo |-> {}]
    /\ promptCache = EmptyMap
    /\ bgTicks = 0
    /\ closed = FALSE

BodyIdle ==
    /\ ssePartial = [lines |-> <<>>, tail |-> <<>>]

(***************************************************************************)
(* SpecStream: one ChatGPT stream over text, reasoning and terminal        *)
(* events, in every reasoning_compat mode, with and without include_usage. *)
(***************************************************************************)
StreamInit ==
    /\ state = NewStreamState
    /\ reasoningCompat \in ReasoningCompatModes
    /\ includeUsage \in BOOLEAN
    /\ done = FALSE
    /\ sentUsage = FALSE
    /\ streamErr = FALSE
    /\ response = NoResponse
    /\ pendingChunks = <<>>
    /\ respStatusOK \in BOOLEAN
    /\ events = <<>>
    /\ emitted = <<>>
    /\ returned = <<>>
    /\ HandlerIdle /\ StoreIdle /\ CopilotIdle /\ InstructionsIdle /\ ModelsCacheIdle /\ CallIdle /\ ReaderIdle /\ ChatIdle /\ GetModelsIdle /\ CopilotStreamIdle /\ ClientIdle /\ BodyIdle

NextTextEvent == \E ev \in TextEvents : Len(events) < MaxEvents /\ NextEvent(ev)

StreamNext ==
    \/ NextPending
    \/ NextAfterDone
    \/ NextBadStatus
    \/ NextTextEvent
    \/ NextEOF
    \/ NextReadError

SpecStream == StreamInit /\ [][StreamNext]_vars

(***************************************************************************)
(* The order of what Next returns.                                         *)
(***************************************************************************)
ChunksOf(rets) ==
    LET kept == SelectSeq(rets, LAMBDA r : r.kind = "chunk")
    IN [i \in 1..Len(kept) |-> kept[i].chunk]

\* the usage chunk the end of the body returned, if it returned one
UsageTail ==
    IF done /\ respStatusOK /\ includeUsage /\ GetUsageChunk(state) # NoChunk
    THEN <<GetUsageChunk(state)>>
    ELSE <<>>

EOFReturned == \E i \in 1..Len(returned) : returned[i].kind = "EOF"

\* C28: the chunks the Next calls have returned, followed by the chunks still
\* buffered, are exactly the chunks ProcessEvent produced, in the order of the
\* events and of the chunks within each event, followed by the usage chunk
\* when the end of the body returned one; io.EOF is returned only after all
\* of them, and every later call returns io.EOF and no chunk.
C28_NextOrder ==
    /\ ChunksOf(returned) \o pendingChunks = emitted \o UsageTail
    /\ UsageTail # <<>> => pendingChunks = <<>>
    /\ EOFReturned => done /\ pendingChunks = <<>>
    /\ \A i, j \in 1..Len(returned) :
          i < j /\ returned[i].kind = "EOF" => returned[j].kind = "EOF"

\* a run where one event produced two chunks, a later event produced another,
\* the usage chunk followed and io.EOF was returned twice
C28_Witness ==
    /\ CountKind(returned, "EOF") = 2
    /\ UsageTail # <<>>
    /\ Len(events) >= 2
    /\ Len(emitted) > Len(events)
    /\ Len(ChunksOf(returned)) = Len(emitted) + 1

(***************************************************************************)
(* SpecTools: one ChatGPT stream over the tool-call events.                *)
(***************************************************************************)
ToolsInit ==
    /\ state = NewStreamState
    /\ reasoningCompat = "think-tags"
    /\ includeUsage = FALSE
    /\ done = FALSE
    /\ sentUsage = FALSE
    /\ streamErr = FALSE
    /\ response = NoResponse
    /\ pendingChunks = <<>>
    /\ respStatusOK = TRUE
    /\ events = <<>>
    /\ emitted = <<>>
    /\ returned = <<>>
    /\ HandlerIdle /\ StoreIdle /\ CopilotIdle /\ InstructionsIdle /\ ModelsCacheIdle /\ CallIdle /\ ReaderIdle /\ ChatIdle /\ GetModelsIdle /\ CopilotStreamIdle /\ ClientIdle /\ BodyIdle

NextToolEvent == \E ev \in ToolEvents : Len(events) < MaxToolEvents /\ NextEvent(ev)

ToolsNext ==
    \/ NextPending
    \/ NextAfterDone
    \/ NextToolEvent
    \/ NextEOF

SpecTools == ToolsInit /\ [][ToolsNext]_vars

(***************************************************************************)
(* SpecCalls: one ChatGPT stream over function-call events.                *)
(***************************************************************************)
NextCallEvent == \E ev \in CallEvents : Len(events) < MaxCallEvents /\ NextEvent(ev)

CallsNext ==
    \/ NextPending
    \/ NextAfterDone
    \/ NextCallEvent
    \/ NextEOF

SpecCalls == ToolsInit /\ [][CallsNext]_vars

(***************************************************************************)
(* Properties of the translated stream.                                    *)
(***************************************************************************)
FinishPositions(chunks) == {i \in 1..Len(chunks) : HasFinish(chunks[i])}
FinishCount(chunks) == Cardinality(FinishPositions(chunks))

\* the events whose handler sends the terminal chunk
FinishingEvent(e) ==
    /\ ~e.malformed
    /\ e.Event \in {"response.output_text.done", "response.completed",
                    "response.incomplete", "response.cancelled"}

\* the events with which the upstream ends a response
TerminalEvent(e) ==
    e.Event \in {"response.completed", "response.incomplete", "response.cancelled",
                 "response.failed", "error"}

StreamEnded == done /\ respStatusOK /\ response.built
UpstreamTerminated == events # <<>> /\ TerminalEvent(events[Len(events)])

\* the concatenation of delta.content over the chunks
StreamedContent(chunks) == Concat(SeqMap(ContentOf, chunks))

SawReasoningDelta ==
    \E i \in 1..Len(events) :
        /\ ~events[i].malformed
        /\ events[i].Event \in {"response.reasoning_summary_text.delta",
                                "response.reasoning_text.delta"}

C2_ThinkTagClosure ==
    (StreamEnded /\ UpstreamTerminated /\ FinishCount(emitted) = 1
        /\ reasoningCompat = "think-tags" /\ SawReasoningDelta)
    => LET text == StreamedContent(emitted)
       IN /\ CountOf("<think>", text) = 1
          /\ CountOf("</think>", text) = 1
          /\ \A i, j, k \in 1..Len(text) :
                (text[i] = "<think>" /\ text[k] = "</think>" /\ i < j /\ j < k)
                => text[j] # "t"

UsagePositions(rets) ==
    {i \in 1..Len(rets) : rets[i].kind = "chunk" /\ IsUsageOnly(rets[i].chunk)}

\* C7: the usage-only chunk is returned by Next only when include_usage was
\* requested, at most once, after the terminal finish-reason chunk, and nothing
\* but io.EOF is returned after it.
C7_UsageChunkLast ==
    /\ Cardinality(UsagePositions(returned)) <= 1
    /\ \A i \in UsagePositions(returned) :
          /\ includeUsage
          /\ Len(returned[i].chunk.Choices) = 0
          /\ \E j \in 1..(i - 1) :
                returned[j].kind = "chunk" /\ HasFinish(returned[j].chunk)
          /\ \A k \in (i + 1)..Len(returned) : returned[k].kind = "EOF"

\* The usage chunk was returned and Next was called again after it.
C7_Witness ==
    \E i \in UsagePositions(returned) : i < Len(returned)

\* the response.completed event ends the sequence and is its only terminal event
CompletedNormally ==
    /\ events # <<>>
    /\ events[Len(events)].Event = "response.completed"
    /\ \A i \in 1..(Len(events) - 1) :
          ~TerminalEvent(events[i]) /\ ~events[i].malformed

\* C8: the response built after EOF has the content the chunks streamed, and
\* the finish_reason of the streamed terminal chunk.
C8_StreamingParity ==
    (StreamEnded /\ CompletedNormally)
    => /\ response.Content = StreamedContent(emitted)
       /\ \A i \in FinishPositions(emitted) :
             response.FinishReason = FinishOf(emitted[i])

(***************************************************************************)
(* Properties of the tool calls.                                           *)
(***************************************************************************)
CallEventNames == {"response.output_item.added",
                   "response.function_call_arguments.delta",
                   "response.output_item.done"}
IsCallEventAt(e, i) == e.Event \in CallEventNames /\ e.OutputIndex = i

\* the events of the stream that name output index i
EventsAt(i) == SelectSeq(events, LAMBDA e : IsCallEventAt(e, i))

\* output_item.added (function_call), argument deltas, output_item.done
CallShape(i) ==
    LET es == EventsAt(i)
    IN /\ Len(es) >= 2
       /\ es[1].Event = "response.output_item.added"
       /\ es[1].Item.Type = "function_call"
       /\ es[Len(es)].Event = "response.output_item.done"
       /\ es[Len(es)].Item.Type = "function_call"
       /\ \A k \in 2..(Len(es) - 1) :
             es[k].Event = "response.function_call_arguments.delta"
       /\ \A k \in 1..Len(es) : ~es[k].malformed

DeltasAt(i) ==
    LET es == EventsAt(i)
    IN Concat([k \in 1..(Len(es) - 2) |-> es[k + 1].Delta])

DonePayloadAt(i) == EventsAt(i)[Len(EventsAt(i))].Item.Arguments

AccumFields == {"Query", "Domains", "MaxResults", "Recency"}
FieldEmpty(accum, f) ==
    CASE f = "Query" -> accum.Query = ""
      [] f = "Domains" -> accum.Domains = <<>>
      [] f = "MaxResults" -> accum.MaxResults = 0
      [] f = "Recency" -> accum.Recency = ""
FieldSame(a, b, f) ==
    CASE f = "Query" -> a.Query = b.Query
      [] f = "Domains" -> a.Domains = b.Domains
      [] f = "MaxResults" -> a.MaxResults = b.MaxResults
      [] f = "Recency" -> a.Recency = b.Recency

AccumKept ==
    \A c \in DOMAIN state.WebSearchState :
        \A f \in AccumFields :
            ~FieldEmpty(state.WebSearchState[c], f)
            => /\ c \in DOMAIN state'.WebSearchState
               /\ FieldSame(state.WebSearchState[c], state'.WebSearchState[c], f)

\* C9: once a field of the accumulator of a call-id is non-empty, no event of
\* the stream changes it.
C9_AccumulatorMonotone == [][AccumKept]_vars

(***************************************************************************)
(* server.Handlers.handleStreaming (handlers.go:259-310) and the SSEWriter *)
(* (part_014).  The handler's StreamState is upstream.StreamState, whose   *)
(* ProcessEvent has the same code as the one above for the events of       *)
(* HandlerEvents.  A write to a client that is still there succeeds; a     *)
(* write to a client that has gone may fail or may still be accepted by    *)
(* the connection's buffers.                                               *)
(***************************************************************************)
HandlerEvents ==
    { Created("resp_1"),
      TextDelta(Str("t")),
      SummaryDelta(Str("s")),
      Ev("response.output_text.done"),
      Completed(SomeUsage(5)),
      Failed("boom"),
      Malformed("response.output_text.delta") }

WriteOutcomes == IF clientGone THEN BOOLEAN ELSE {TRUE}

\* one call of WriteChunk, WriteError or WriteDone, and whether it succeeded
WriteCall(kind, ok) == [kind |-> kind, ok |-> ok]
Written(calls) == SelectSeq(calls, LAMBDA w : w.ok)

othersOfHandler == <<streamVars, storeVars, copilotVars, instrVars, modelsVars, callVars, sseVars, chatVars, getVars, csVars, closeVars, bodyVars>>

\* ReadEvent returned ev: ProcessEvent; an error is reported as an error frame
\* and the loop continues; the chunks are then written one by one.
HReadEvent(ev) ==
    /\ hpc = "read"
    /\ Len(hevents) < MaxHandlerEvents
    /\ hevents' = Append(hevents, ev)
    /\ \E r \in ProcessEvent(hstate, ev) : \E ok \in WriteOutcomes :
          /\ hstate' = r.s
          /\ IF r.err
             THEN /\ attempts' = Append(attempts, WriteCall("error", ok))
                  /\ frames' = frames \o Written(<<WriteCall("error", ok)>>)
                  /\ hqueue' = <<>>
                  /\ hpc' = "read"
             ELSE /\ attempts' = attempts
                  /\ frames' = frames
                  /\ hqueue' = r.chunks
                  /\ hpc' = IF Len(r.chunks) > 0 THEN "write" ELSE "read"
    /\ UNCHANGED <<clientGone, goneAt, hUsage, othersOfHandler>>

\* if err := sseWriter.WriteChunk(chunk); err != nil { return }
HWriteChunk ==
    /\ hpc = "write"
    /\ \E ok \in WriteOutcomes :
          /\ attempts' = Append(attempts, WriteCall("chunk", ok))
          /\ frames' = frames \o Written(<<WriteCall("chunk", ok)>>)
          /\ hpc' = IF ~ok THEN "returned"
                    ELSE IF Len(hqueue) > 1 THEN "write" ELSE "read"
    /\ hqueue' = Tail(hqueue)
    /\ UNCHANGED <<hstate, hevents, clientGone, goneAt, hUsage, othersOfHandler>>

\* The calls made once the loop is left: the read error if there was one, the
\* upstream error, the usage chunk, [DONE].  Their errors are ignored.
TailCalls(readError, oks) ==
    (IF readError THEN <<WriteCall("error", oks[1])>> ELSE <<>>)
    \o (IF hstate.ErrorMessage # "" THEN <<WriteCall("error", oks[2])>> ELSE <<>>)
    \o (IF hUsage /\ GetUsageChunk(hstate) # NoChunk
        THEN <<WriteCall("usage", oks[3])>> ELSE <<>>)
    \o <<WriteCall("done", oks[4])>>

\* ReadEvent returned io.EOF (readError = FALSE) or another error: the loop is
\* left and the handler finishes the response.
HEndOfBody(readError) ==
    /\ hpc = "read"
    /\ \E oks \in [1..4 -> WriteOutcomes] :
          /\ attempts' = attempts \o TailCalls(readError, oks)
          /\ frames' = frames \o Written(TailCalls(readError, oks))
    /\ hpc' = "returned"
    /\ UNCHANGED <<hstate, hqueue, hevents, clientGone, goneAt, hUsage,
                   othersOfHandler>>

HEOF == HEndOfBody(FALSE)
HReadError == HEndOfBody(TRUE)

\* The client disconnects, which cancels the request context.
HClientGone ==
    /\ ~clientGone
    /\ hpc # "returned"
    /\ clientGone' = TRUE
    /\ goneAt' = Len(attempts)
    /\ UNCHANGED <<hpc, hstate, hqueue, hevents, frames, attempts, hUsage,
                   othersOfHandler>>

HandlerInit ==
    /\ hpc = "read"
    /\ \E mode \in {"none", "think-tags"} :
          hstate = SetReasoningCompat(NewStreamState, mode)
    /\ hqueue = <<>>
    /\ hevents = <<>>
    /\ frames = <<>>
    /\ attempts = <<>>
    /\ clientGone = FALSE
    /\ goneAt = 0
    /\ hUsage \in BOOLEAN
    /\ StreamIdle /\ StoreIdle /\ CopilotIdle /\ InstructionsIdle /\ ModelsCacheIdle /\ CallIdle /\ ReaderIdle /\ ChatIdle /\ GetModelsIdle /\ CopilotStreamIdle /\ ClientIdle /\ BodyIdle

HandlerNext ==
    \/ \E ev \in HandlerEvents : HReadEvent(ev)
    \/ HWriteChunk
    \/ HEOF
    \/ HReadError
    \/ HClientGone

SpecHandler == HandlerInit /\ [][HandlerNext]_vars

ChunkWrittenBeforeGone ==
    \E k \in 1..goneAt : attempts[k].kind = "chunk" /\ attempts[k].ok

\* C10: when the client has gone after the first chunk was written, the handler
\* calls neither WriteError nor WriteDone any more, and attempts nothing after
\* a write that failed.
C10_CancelStopsWriter ==
    (clientGone /\ ChunkWrittenBeforeGone)
    => /\ \A k \in (goneAt + 1)..Len(attempts) :
             attempts[k].kind \notin {"error", "done"}
       /\ \A k \in 1..(Len(attempts) - 1) : attempts[k].ok

(***************************************************************************)
(* auth.Store (part_016) and the credential types (auth/types.go).         *)
(* A credential object lives in heap and is named by its index; the cache  *)
(* maps a provider to such a reference.  The dynamic Go type of an object  *)
(* is its kind, which is not its Type field.                               *)
(***************************************************************************)
ExpiryMargin == 60

Threads == 1..NumCallers
PID == "chatgpt"
NilRef == 0
OAuthKind == "*OAuthCredentials"
APIKeyKind == "*APIKeyCredentials"

OAuthCredentials(type, at, rt, idt, exp, acct, email) ==
    [kind |-> OAuthKind, Type |-> type, AccessToken |-> at, RefreshToken |-> rt,
     IDToken |-> idt, ExpiresAt |-> exp, AccountID |-> acct, Email |-> email,
     APIKey |-> EmptyStr, CreatedAt |-> 0]

APIKeyCredentials(type, key, created) ==
    [kind |-> APIKeyKind, Type |-> type, AccessToken |-> EmptyStr,
     RefreshToken |-> EmptyStr, IDToken |-> EmptyStr, ExpiresAt |-> 0,
     AccountID |-> EmptyStr, Email |-> EmptyStr,
     APIKey |-> key, CreatedAt |-> created]

NoCredentials == [APIKeyCredentials("", EmptyStr, 0) EXCEPT !.kind = "nil"]

\* time.Now().Add(60 * time.Second).After(c.ExpiresAt)
IsExpired(c) == now + ExpiryMargin > c.ExpiresAt

Discriminator(kind) == IF kind = OAuthKind THEN "oauth" ELSE "api_key"

copyOAuthCredentials(c) ==
    OAuthCredentials(c.Type, c.AccessToken, c.RefreshToken, c.IDToken,
                     c.ExpiresAt, c.AccountID, c.Email)

copyAPIKeyCredentials(c) == APIKeyCredentials(c.Type, c.APIKey, c.CreatedAt)

\* a copy that is no copy: the reference itself
shareCredentials(h, ref) == [heap |-> h, ref |-> ref]

\* the copy functions at the level of references: a new object
copyCredentials(h, ref) ==
    [heap |-> Append(h, IF h[ref].kind = OAuthKind
                        THEN copyOAuthCredentials(h[ref])
                        ELSE copyAPIKeyCredentials(h[ref])),
     ref |-> Len(h) + 1]

\* json.MarshalIndent of a credential: the keys of the struct tags, the
\* omitempty ones only when not empty
JSONKeys(c) ==
    IF c.kind = OAuthKind
    THEN {"type", "access_token", "refresh_token", "expires_at"}
         \cup (IF c.IDToken # EmptyStr THEN {"id_token"} ELSE {})
         \cup (IF c.AccountID # EmptyStr THEN {"account_id"} ELSE {})
         \cup (IF c.Email # EmptyStr THEN {"email"} ELSE {})
    ELSE {"type", "api_key", "created_at"}

JSONValue(c, k) ==
    CASE k = "type" -> <<c.Type>>
      [] k = "access_token" -> c.AccessToken
      [] k = "refresh_token" -> c.RefreshToken
      [] k = "id_token" -> c.IDToken
      [] k = "expires_at" -> <<c.ExpiresAt>>
      [] k = "account_id" -> c.AccountID
      [] k = "email" -> c.Email
      [] k = "api_key" -> c.APIKey
      [] k = "created_at" -> <<c.CreatedAt>>

Marshal(c) == [k \in JSONKeys(c) |-> JSONValue(c, k)]

JSONString(f, k) == IF Has(f, k) THEN f[k] ELSE EmptyStr
JSONScalar(f, k, zero) == IF Has(f, k) THEN f[k][1] ELSE zero

\* json.Unmarshal into the struct of the kind: absent keys leave zero values
Unmarshal(kind, f) ==
    IF kind = OAuthKind
    THEN OAuthCredentials(JSONScalar(f, "type", ""), JSONString(f, "access_token"),
                          JSONString(f, "refresh_token"), JSONString(f, "id_token"),
                          JSONScalar(f, "expires_at", 0),
                          JSONString(f, "account_id"), JSONString(f, "email"))
    ELSE APIKeyCredentials(JSONScalar(f, "type", ""), JSONString(f, "api_key"),
                           JSONScalar(f, "created_at", 0))

NoLocals ==
    [op |-> "none", kind |-> OAuthKind, stage |-> "cache", file |-> NoCredentials,
     res |-> NilRef, err |-> FALSE, arg |-> NilRef, copy |-> NilRef,
     sawExpired |-> FALSE]

othersOfStore == <<streamVars, handlerVars, copilotVars, instrVars, modelsVars, callVars, sseVars, chatVars, getVars, csVars, closeVars, bodyVars>>

GetSites == {"Get", "R383", "R395", "F326", "R405"}

\* where a caller of Get*Credentials goes on, by call site and outcome
GetContinue(site, err) ==
    CASE site = "Get" -> "idle"
      [] site = "R383" -> IF err THEN "returned" ELSE "R388"
      [] site = "R395" -> IF err THEN "Rret" ELSE "R400"
      [] site = "F326" -> IF err THEN "Rret" ELSE "F331"
      [] site = "R405" -> "Rret"

\* Get*Credentials returns ref (or an error) to thread t; h is the new heap
GetReturns(t, h, ref, err) ==
    /\ heap' = h
    /\ tpc' = [tpc EXCEPT ![t] = GetContinue(tpc[t], err)]
    /\ tloc' = [tloc EXCEPT ![t].stage = "cache", ![t].file = NoCredentials,
                            ![t].res = ref, ![t].err = err]
    /\ lastGet' = IF tpc[t] = "Get"
                  THEN [valid |-> TRUE, kind |-> tloc[t].kind, err |-> err,
                        value |-> IF err THEN NoCredentials ELSE h[ref]]
                  ELSE lastGet

CachedAs(kind) == Has(cache, PID) /\ heap[cache[PID]].kind = kind

ReturnCached(t) ==
    LET c == copyCredentials(heap, cache[PID])
    IN GetReturns(t, c.heap, c.ref, FALSE)

\* lines 77-98 / 142-163, the read-locked lookup
GetLookup(t) ==
    /\ tpc[t] \in GetSites /\ tloc[t].stage = "cache"
    /\ IF CachedAs(tloc[t].kind)
       THEN ReturnCached(t)
       ELSE /\ tloc' = [tloc EXCEPT ![t].stage =
                           IF Has(cache, PID) THEN "evict" ELSE "disk"]
            /\ UNCHANGED <<heap, tpc, lastGet>>
    /\ UNCHANGED <<disk, cache, saved, refreshLock, now, posts, postsInFlight,
                   othersOfStore>>

\* lines 85-95 / 150-160, the write-locked re-check and eviction
GetEvict(t) ==
    /\ tpc[t] \in GetSites /\ tloc[t].stage = "evict"
    /\ IF CachedAs(tloc[t].kind)
       THEN ReturnCached(t) /\ cache' = cache
       ELSE /\ cache' = Del(cache, PID)
            /\ tloc' = [tloc EXCEPT ![t].stage = "disk"]
            /\ UNCHANGED <<heap, tpc, lastGet>>
    /\ UNCHANGED <<disk, saved, refreshLock, now, posts, postsInFlight,
                   othersOfStore>>

\* a reader that takes a file of either type
TypeUnchecked(kind, data) == FALSE

\* lines 109-116 / 174-181: the file's type is not the one asked for
TypeMismatch(kind, data) == JSONScalar(data, "type", "") # Discriminator(kind)

\* lines 100-121 / 165-186: read the file, check its type, parse it
GetReadFile(t) ==
    /\ tpc[t] \in GetSites /\ tloc[t].stage = "disk"
    /\ IF ~Has(disk, PID) \/ TypeMismatch(tloc[t].kind, disk[PID])
       THEN GetReturns(t, heap, NilRef, TRUE)
       ELSE /\ tloc' = [tloc EXCEPT ![t].stage = "fill",
                                    ![t].file = Unmarshal(tloc[t].kind, disk[PID])]
            /\ UNCHANGED <<heap, tpc, lastGet>>
    /\ UNCHANGED <<disk, cache, saved, refreshLock, now, posts, postsInFlight,
                   othersOfStore>>

\* lines 124-136 / 189-201: populate the cache unless it is populated
GetFill(t) ==
    /\ tpc[t] \in GetSites /\ tloc[t].stage = "fill"
    /\ IF CachedAs(tloc[t].kind)
       THEN ReturnCached(t) /\ cache' = cache
       ELSE LET creds == Len(heap) + 1
                credsCopy == copyCredentials(Append(heap, tloc[t].file), creds)
                result == copyCredentials(credsCopy.heap, credsCopy.ref)
            IN /\ cache' = Put(cache, PID, credsCopy.ref)
               /\ GetReturns(t, result.heap, result.ref, FALSE)
    /\ UNCHANGED <<disk, saved, refreshLock, now, posts, postsInFlight,
                   othersOfStore>>

\* where Save*Credentials returns to
SaveContinue(t, err) ==
    IF tloc[t].op = "Refreshed"
    THEN (IF err THEN "Rret" ELSE "R405")
    ELSE "idle"

\* lines 206-222 / 234-250: copy, set the type, write the file
SaveWrite(t) ==
    /\ tpc[t] = "SaveWrite"
    /\ \E ok \in BOOLEAN :
          IF ok
          THEN LET c == copyCredentials(heap, tloc[t].arg)
                   typed == [c.heap EXCEPT ![c.ref].Type =
                                Discriminator(c.heap[c.ref].kind)]
               IN /\ heap' = typed
                  /\ disk' = Put(disk, PID, Marshal(typed[c.ref]))
                  /\ tloc' = [tloc EXCEPT ![t].copy = c.ref]
                  /\ tpc' = [tpc EXCEPT ![t] = "SaveCache"]
                  /\ saved' = Put(saved, PID,
                                  [heap[tloc[t].arg] EXCEPT !.Type =
                                      Discriminator(heap[tloc[t].arg].kind)])
                  /\ lastGet' = [valid |-> FALSE]
          ELSE /\ tloc' = [tloc EXCEPT ![t].err = TRUE, ![t].res = NilRef]
               /\ tpc' = [tpc EXCEPT ![t] = SaveContinue(t, TRUE)]
               /\ UNCHANGED <<heap, disk, saved, lastGet>>
    /\ UNCHANGED <<cache, refreshLock, now, posts, postsInFlight, othersOfStore>>

\* lines 225-229 / 253-257: store the copy in the cache
SaveCache(t) ==
    /\ tpc[t] = "SaveCache"
    /\ cache' = Put(cache, PID, tloc[t].copy)
    /\ tpc' = [tpc EXCEPT ![t] = SaveContinue(t, FALSE)]
    /\ tloc' = [tloc EXCEPT ![t].err = FALSE]
    /\ UNCHANGED <<disk, heap, saved, lastGet, refreshLock, now, posts,
                   postsInFlight, othersOfStore>>

\* DeleteCredentials, lines 262-264
DeleteCache(t) ==
    /\ tpc[t] = "idle"
    /\ cache' = Del(cache, PID)
    /\ tpc' = [tpc EXCEPT ![t] = "D266"]
    /\ tloc' = [tloc EXCEPT ![t].op = "Delete"]
    /\ UNCHANGED <<disk, heap, saved, lastGet, refreshLock, now, posts,
                   postsInFlight, othersOfStore>>

\* DeleteCredentials, lines 266-270
DeleteFile(t) ==
    /\ tpc[t] = "D266"
    /\ disk' = Del(disk, PID)
    /\ saved' = Del(saved, PID)
    /\ tpc' = [tpc EXCEPT ![t] = "idle"]
    /\ UNCHANGED <<cache, heap, lastGet, refreshLock, now, tloc, posts,
                   postsInFlight, othersOfStore>>

\* NewStore on the same data directory: an empty cache
NewStore ==
    /\ \A t \in Threads : tpc[t] \in {"idle", "off"}
    /\ cache # EmptyMap
    /\ cache' = EmptyMap
    /\ UNCHANGED <<disk, heap, saved, lastGet, refreshLock, now, tpc, tloc, posts,
                   postsInFlight, othersOfStore>>

(***************************************************************************)
(* The caller of the store: it calls Get* and Save* with credentials of    *)
(* its own, and writes to the objects it holds.                            *)
(***************************************************************************)
CallerCredentials ==
    { OAuthCredentials("", Str("a1"), Str("r1"), Str("i"), 100, EmptyStr, Str("e")),
      APIKeyCredentials("oauth", Str("k1"), 7) }

Evil == Str("evil")

CallGet(t, kind) ==
    /\ tpc[t] = "idle"
    /\ Len(heap) + 3 <= MaxHeap
    /\ tpc' = [tpc EXCEPT ![t] = "Get"]
    /\ tloc' = [tloc EXCEPT ![t].op = "Get", ![t].kind = kind, ![t].stage = "cache"]
    /\ UNCHANGED <<disk, cache, heap, saved, lastGet, refreshLock, now, posts,
                   postsInFlight, othersOfStore>>

\* Save*Credentials(pid, c) with a new credential c
CallSave(t, c) ==
    /\ tpc[t] = "idle"
    /\ Len(heap) + 2 <= MaxHeap
    /\ heap' = Append(heap, c)
    /\ tpc' = [tpc EXCEPT ![t] = "SaveWrite"]
    /\ tloc' = [tloc EXCEPT ![t].op = "Save", ![t].kind = c.kind,
                            ![t].arg = Len(heap) + 1]
    /\ UNCHANGED <<disk, cache, saved, lastGet, refreshLock, now, posts,
                   postsInFlight, othersOfStore>>

\* Save*Credentials(pid, c) with the credential the last Get* returned
CallSaveReturned(t) ==
    /\ tpc[t] = "idle"
    /\ tloc[t].res # NilRef
    /\ Len(heap) + 1 <= MaxHeap
    /\ tpc' = [tpc EXCEPT ![t] = "SaveWrite"]
    /\ tloc' = [tloc EXCEPT ![t].op = "Save", ![t].kind = heap[tloc[t].res].kind,
                            ![t].arg = tloc[t].res]
    /\ UNCHANGED <<disk, cache, heap, saved, lastGet, refreshLock, now, posts,
                   postsInFlight, othersOfStore>>

\* the caller writes to an object it holds
MutateObject(t, ref) ==
    /\ tpc[t] = "idle"
    /\ ref # NilRef
    /\ heap[ref].AccessToken # Evil /\ heap[ref].APIKey # Evil
    /\ heap' = [heap EXCEPT ![ref] =
                   IF @.kind = OAuthKind
                   THEN [@ EXCEPT !.AccessToken = Evil, !.Type = "evil"]
                   ELSE [@ EXCEPT !.APIKey = Evil, !.Type = "evil"]]
    /\ UNCHANGED <<disk, cache, saved, lastGet, refreshLock, now, tpc, tloc, posts,
                   postsInFlight, othersOfStore>>

MutateSaved(t) == MutateObject(t, tloc[t].arg)
MutateReturned(t) == MutateObject(t, tloc[t].res)

StoreInit ==
    /\ disk = EmptyMap
    /\ cache = EmptyMap
    /\ heap = <<>>
    /\ saved = EmptyMap
    /\ lastGet = [valid |-> FALSE]
    /\ refreshLock = NilRef
    /\ now = 0
    /\ tpc = [t \in Threads |-> IF t = 1 THEN "idle" ELSE "off"]
    /\ tloc = [t \in Threads |-> NoLocals]
    /\ posts = <<>>
    /\ postsInFlight = {}
    /\ StreamIdle /\ HandlerIdle /\ CopilotIdle /\ InstructionsIdle /\ ModelsCacheIdle /\ CallIdle /\ ReaderIdle /\ ChatIdle /\ GetModelsIdle /\ CopilotStreamIdle /\ ClientIdle /\ BodyIdle

StoreNext ==
    \E t \in Threads :
        \/ \E kind \in {OAuthKind, APIKeyKind} : CallGet(t, kind)
        \/ GetLookup(t)
        \/ GetEvict(t)
        \/ GetReadFile(t)
        \/ GetFill(t)
        \/ \E c \in CallerCredentials : CallSave(t, c)
        \/ CallSaveReturned(t)
        \/ SaveWrite(t)
        \/ SaveCache(t)
        \/ MutateSaved(t)
        \/ MutateReturned(t)
        \/ DeleteCache(t)
        \/ DeleteFile(t)
        \/ NewStore

SpecStore == StoreInit /\ [][StoreNext]_vars

\* C5: a Get* that follows a Save* of the same variant returns the credential
\* that was saved, with the type field set to the variant's discriminator,
\* whatever the caller wrote meanwhile to the object it passed to Save* or to
\* an object a Get* had returned.
C5_RoundTrip ==
    (lastGet.valid /\ Has(saved, PID) /\ saved[PID].kind = lastGet.kind)
    => (~lastGet.err /\ lastGet.value = saved[PID])

\* a Get* returned the saved credential after the caller had overwritten both
\* the object it saved and an object returned earlier
C5_Witness ==
    /\ lastGet.valid /\ ~lastGet.err
    /\ Has(saved, PID) /\ saved[PID].kind = lastGet.kind
    /\ lastGet.value = saved[PID]
    /\ lastGet.value.Type = Discriminator(lastGet.kind)
    /\ tloc[1].arg # NilRef /\ heap[tloc[1].arg].Type = "evil"
    /\ \E r \in 1..Len(heap) : r # tloc[1].arg /\ heap[r].Type = "evil"

\* C24: a Get* of one variant on a record saved as the other variant returns
\* an error and no credential; a Get* that succeeds returns the variant that
\* was asked for; and once a Get* is past its cache lookup and eviction the
\* cache holds no entry of the other variant, so what it returns comes from
\* the file.
C24_NoCoercion ==
    /\ lastGet.valid /\ Has(saved, PID) /\ saved[PID].kind # lastGet.kind
       => lastGet.err /\ lastGet.value = NoCredentials
    /\ lastGet.valid /\ ~lastGet.err
       => lastGet.value.kind = lastGet.kind
              /\ lastGet.value.Type = Discriminator(lastGet.kind)
    /\ \A t \in Threads :
          tpc[t] \in GetSites /\ tloc[t].stage \in {"disk", "fill"}
          => ~Has(cache, PID) \/ CachedAs(tloc[t].kind)

\* a GetOAuthCredentials on a record saved and cached as api_key has evicted
\* the cached entry, read the file and returned an error
C24_Witness ==
    /\ lastGet.valid /\ lastGet.kind = OAuthKind /\ lastGet.err
    /\ Has(saved, PID) /\ saved[PID].kind = APIKeyKind
    /\ Has(disk, PID) /\ ~Has(cache, PID)

(***************************************************************************)
(* Store.GetOAuthCredentialsRefreshed (part_016:382-413) with RefreshOAuth *)
(* (325-377) and SetOAuthFromTokenData (282-322), one step per call or     *)
(* blocking operation.  refreshLock is the holder of the provider's        *)
(* refresh mutex, NilRef when it is free.                                  *)
(***************************************************************************)
TokenLifetimes == {30, 60, 90}
ClockSteps == {60}
RefreshedToken(n) == <<"refreshed", n>>

\* a lock that excludes nobody
RefreshMutexIgnored == TRUE

\* refreshMu.Lock() can return
RefreshMutexFree == refreshLock = NilRef

CallRefreshed(t) ==
    /\ tpc[t] = "idle"
    /\ tpc' = [tpc EXCEPT ![t] = "R383"]
    /\ tloc' = [tloc EXCEPT ![t].op = "Refreshed", ![t].kind = OAuthKind]
    /\ UNCHANGED <<disk, cache, heap, saved, lastGet, refreshLock, now, posts,
                   postsInFlight, othersOfStore>>

\* line 388: if creds.IsExpired()
CheckExpired(t) ==
    /\ tpc[t] = "R388"
    /\ IF IsExpired(heap[tloc[t].res])
       THEN /\ tpc' = [tpc EXCEPT ![t] = "R391"]
            /\ tloc' = [tloc EXCEPT ![t].sawExpired = TRUE]
       ELSE /\ tpc' = [tpc EXCEPT ![t] = "returned"]
            /\ tloc' = tloc
    /\ UNCHANGED <<disk, cache, heap, saved, lastGet, refreshLock, now, posts,
                   postsInFlight, othersOfStore>>

\* lines 390-392: refreshMu.Lock()
LockRefresh(t) ==
    /\ tpc[t] = "R391"
    /\ RefreshMutexFree
    /\ refreshLock' = t
    /\ tpc' = [tpc EXCEPT ![t] = "R395"]
    /\ UNCHANGED <<disk, cache, heap, saved, lastGet, now, tloc, posts,
                   postsInFlight, othersOfStore>>

\* line 400: the re-check under the lock
RecheckExpired(t) ==
    /\ tpc[t] = "R400"
    /\ tpc' = [tpc EXCEPT ![t] = IF IsExpired(heap[tloc[t].res])
                                 THEN "F326" ELSE "Rret"]
    /\ UNCHANGED <<disk, cache, heap, saved, lastGet, refreshLock, now, tloc, posts,
                   postsInFlight, othersOfStore>>

\* RefreshOAuth lines 331-347: no refresh token is an error, else the POST
SendRefresh(t) ==
    /\ tpc[t] = "F331"
    /\ IF heap[tloc[t].res].RefreshToken = EmptyStr
       THEN /\ tpc' = [tpc EXCEPT ![t] = "Rret"]
            /\ tloc' = [tloc EXCEPT ![t].err = TRUE, ![t].res = NilRef]
            /\ postsInFlight' = postsInFlight
       ELSE /\ tpc' = [tpc EXCEPT ![t] = "F347"]
            /\ tloc' = tloc
            /\ postsInFlight' = postsInFlight \cup {t}
    /\ UNCHANGED <<disk, cache, heap, saved, lastGet, refreshLock, now, posts,
                   othersOfStore>>

\* the refresh token of the response, whatever it is
TakeRefreshToken(old, rt) == rt

\* lines 372-374: keep the old refresh token if a new one wasn't provided
KeepRefreshToken(old, rt) == IF rt = EmptyStr THEN old ELSE rt

\* the refresh token of the credentials file
StoredRefreshToken == JSONString(disk[PID], "refresh_token")

\* RefreshOAuth lines 347-376 and SetOAuthFromTokenData lines 283-321: the
\* response; a failure is returned, a success becomes the credential to save
ReceiveRefresh(t) ==
    /\ tpc[t] = "F347"
    /\ postsInFlight' = postsInFlight \ {t}
    /\ \E ok \in BOOLEAN, lifetime \in TokenLifetimes, rt \in {EmptyStr, Str("r2")} :
          LET token == RefreshedToken(Len(posts) + 1)
              old == heap[tloc[t].res]
              creds == OAuthCredentials("oauth", token,
                                        KeepRefreshToken(old.RefreshToken, rt),
                                        EmptyStr, now + lifetime, EmptyStr, EmptyStr)
          IN /\ posts' = Append(posts, [by |-> t, ok |-> ok, token |-> token,
                                        expiresAt |-> now + lifetime,
                                        refresh |-> rt,
                                        stored |-> StoredRefreshToken])
             /\ IF ok
                THEN /\ heap' = Append(heap, creds)
                     /\ tloc' = [tloc EXCEPT ![t].arg = Len(heap) + 1]
                     /\ tpc' = [tpc EXCEPT ![t] = "SaveWrite"]
                ELSE /\ heap' = heap
                     /\ tloc' = [tloc EXCEPT ![t].err = TRUE, ![t].res = NilRef]
                     /\ tpc' = [tpc EXCEPT ![t] = "Rret"]
    /\ UNCHANGED <<disk, cache, saved, lastGet, refreshLock, now, othersOfStore>>

\* a return that leaves the mutex as it is
RefreshMutexKept(t) == refreshLock

\* line 392: defer refreshMu.Unlock()
RefreshMutexUnlocked(t) == IF refreshLock = t THEN NilRef ELSE refreshLock

\* the deferred unlock and the return
ReturnRefreshed(t) ==
    /\ tpc[t] = "Rret"
    /\ refreshLock' = RefreshMutexUnlocked(t)
    /\ tpc' = [tpc EXCEPT ![t] = "returned"]
    /\ UNCHANGED <<disk, cache, heap, saved, lastGet, now, tloc, posts,
                   postsInFlight, othersOfStore>>

Tick ==
    /\ \E d \in ClockSteps : now + d <= MaxNow /\ now' = now + d
    /\ UNCHANGED <<disk, cache, heap, saved, lastGet, refreshLock, tpc, tloc, posts,
                   postsInFlight, othersOfStore>>

\* the credentials file of a login whose access token has expired
ExpiredLogin(rt) ==
    Marshal(OAuthCredentials("oauth", Str("old"), rt, EmptyStr, 0, EmptyStr, EmptyStr))

RefreshInit ==
    /\ disk = Put(EmptyMap, PID, ExpiredLogin(Str("r1")))
    /\ cache = EmptyMap
    /\ heap = <<>>
    /\ saved = EmptyMap
    /\ lastGet = [valid |-> FALSE]
    /\ refreshLock = NilRef
    /\ now = 0
    /\ tpc = [t \in Threads |-> "idle"]
    /\ tloc = [t \in Threads |-> NoLocals]
    /\ posts = <<>>
    /\ postsInFlight = {}
    /\ StreamIdle /\ HandlerIdle /\ CopilotIdle /\ InstructionsIdle /\ ModelsCacheIdle /\ CallIdle /\ ReaderIdle /\ ChatIdle /\ GetModelsIdle /\ CopilotStreamIdle /\ ClientIdle /\ BodyIdle

RefreshNext ==
    \/ \E t \in Threads :
        \/ CallRefreshed(t)
        \/ GetLookup(t)
        \/ GetReadFile(t)
        \/ GetFill(t)
        \/ CheckExpired(t)
        \/ LockRefresh(t)
        \/ RecheckExpired(t)
        \/ SendRefresh(t)
        \/ ReceiveRefresh(t)
        \/ SaveWrite(t)
        \/ SaveCache(t)
        \/ ReturnRefreshed(t)
    \/ Tick

SpecRefresh == RefreshInit /\ [][RefreshNext]_vars

PostCount == Len(posts) + Cardinality(postsInFlight)
AllSawExpired == \A t \in Threads : tloc[t].sawExpired
HasReturned(t) == tpc[t] = "returned"
ReturnedToken(t) == heap[tloc[t].res].AccessToken
ReturnsRefreshed(t) ==
    /\ ~tloc[t].err
    /\ Len(posts) >= 1
    /\ ReturnedToken(t) = posts[1].token

\* the step of line 388 of a caller: the credential it looks at, and whether
\* it goes on to the refresh
ChecksExpiry(t) == tpc[t] = "R388" /\ tpc'[t] # "R388"
GoesToRefresh(t) == tpc'[t] = "R391"

\* C25: a credential is treated as expired exactly when now + 60 s is at or
\* past expires_at, the instant of equality included, and
\* GetOAuthCredentialsRefreshed goes on to refresh exactly those.
C25_ExpiredAtMargin ==
    [][\A t \in Threads :
          ChecksExpiry(t)
          => (GoesToRefresh(t) <=> now + ExpiryMargin >= heap[tloc[t].res].ExpiresAt)]_vars

\* C4 as stated: when all callers saw the credential expired, at most one POST
\* is made and every caller that has returned, returned the refreshed token.
C4_SinglePost ==
    AllSawExpired
    => /\ PostCount <= 1
       /\ \A t \in Threads : HasReturned(t) => ReturnsRefreshed(t)

\* the first POST succeeded, its token was saved and is still outside the
\* expiry margin
FirstRefreshHolds ==
    /\ Len(posts) >= 1
    /\ posts[1].ok
    /\ ~(now + ExpiryMargin > posts[1].expiresAt)
    /\ Has(saved, PID) /\ saved[PID].AccessToken = posts[1].token

\* C4: at most one POST is in flight at any time; and when all callers saw the
\* credential expired and the first POST has brought a token that is saved
\* and still outside the 60 s margin, it is the only POST and every caller
\* that has returned, returned that token.
C4_Coalesced ==
    /\ Cardinality(postsInFlight) <= 1
    /\ (AllSawExpired /\ FirstRefreshHolds)
       => /\ PostCount = 1
          /\ \A t \in Threads : HasReturned(t) => ReturnsRefreshed(t)

\* every caller saw the credential expired, one POST was made, and all of them
\* have returned its token
C4_Witness ==
    /\ NumCallers >= 2
    /\ AllSawExpired
    /\ PostCount = 1 /\ FirstRefreshHolds
    /\ \A t \in Threads : HasReturned(t) /\ ReturnsRefreshed(t)

\* the credential of the k-th token response is the stored one
StoredFrom(k) ==
    /\ posts[k].ok
    /\ Has(saved, PID) /\ saved[PID].AccessToken = posts[k].token
    /\ Has(disk, PID) /\ JSONString(disk[PID], "access_token") = posts[k].token

\* C30: once the credential of a successful token response is stored, its
\* access_token and expires_at are those of the response, and when the
\* response brought no refresh token its refresh_token is the one that was
\* stored before the refresh (else the one of the response).
C30_KeepsRefreshToken ==
    \A k \in 1..Len(posts) :
       StoredFrom(k)
       => /\ saved[PID].ExpiresAt = posts[k].expiresAt
          /\ JSONScalar(disk[PID], "expires_at", 0) = posts[k].expiresAt
          /\ posts[k].refresh = EmptyStr
             => /\ saved[PID].RefreshToken = posts[k].stored
                /\ StoredRefreshToken = posts[k].stored
          /\ posts[k].refresh # EmptyStr
             => /\ saved[PID].RefreshToken = posts[k].refresh
                /\ StoredRefreshToken = posts[k].refresh

\* a first refresh brought a new refresh token, a second one brought none,
\* and the stored credential has the tokens of the second with the refresh
\* token of the first
C30_Witness ==
    /\ Len(posts) = 2
    /\ posts[1].ok /\ posts[1].refresh = Str("r2")
    /\ posts[2].refresh = EmptyStr /\ posts[2].stored = Str("r2")
    /\ StoredFrom(2)
    /\ saved[PID].RefreshToken = Str("r2")
    /\ saved[PID].AccessToken # posts[1].token

(***************************************************************************)
(* copilot.Client.getCopilotToken (part_007:55-87) with the exchange of    *)
(* refreshCopilotToken (90-129).  Client.mu is a sync.RWMutex: its readers *)
(* and its writer (0 when there is none).  A token is the number of the    *)
(* exchange that produced it.                                              *)
(***************************************************************************)
CopilotMargin == 60

Clients == 1..NumClients
CopilotLifetimes == {60, 120}
CopilotClockSteps == {60}

NoCopilotToken == [present |-> FALSE, Token |-> 0, ExpiresAt |-> 0]

\* c.copilotToken != nil && time.Now().Add(60*time.Second).Before(ExpiresAt)
CopilotTokenValid ==
    copilotToken.present /\ cnow + CopilotMargin < copilotToken.ExpiresAt

othersOfCopilot == <<streamVars, handlerVars, storeVars, instrVars, modelsVars, callVars, sseVars, chatVars, getVars, csVars, closeVars, bodyVars>>

InCall(c) == cpc[c] \notin {"idle", "returned"}
CallsInProgress == Cardinality({c \in Clients : InCall(c)})

\* a write lock that excludes nobody
CanLockAlways == TRUE

\* c.mu.Lock() can return
CanLock == cmu.readers = {} /\ cmu.writer = 0

\* c.mu.RLock() can return
CanRLock == cmu.writer = 0

CallGetCopilotToken(c) ==
    /\ ~InCall(c)
    /\ exchanges.started + CallsInProgress < MaxExchanges
    /\ cpc' = [cpc EXCEPT ![c] = "C56"]
    /\ cret' = [cret EXCEPT ![c] = [token |-> 0, err |-> FALSE, exchanged |-> FALSE,
                                    startToken |-> copilotToken.Token]]
    /\ UNCHANGED <<copilotToken, cmu, exchanges, cnow, othersOfCopilot>>

\* line 56
CopilotRLock(c) ==
    /\ cpc[c] = "C56"
    /\ CanRLock
    /\ cmu' = [cmu EXCEPT !.readers = @ \cup {c}]
    /\ cpc' = [cpc EXCEPT ![c] = "C57"]
    /\ UNCHANGED <<copilotToken, cret, exchanges, cnow, othersOfCopilot>>

\* lines 57-62: the check under the read lock, and RUnlock
CopilotCheck(c) ==
    /\ cpc[c] = "C57"
    /\ cmu' = [cmu EXCEPT !.readers = @ \ {c}]
    /\ IF CopilotTokenValid
       THEN /\ cret' = [cret EXCEPT ![c].token = copilotToken.Token]
            /\ cpc' = [cpc EXCEPT ![c] = "returned"]
       ELSE /\ cret' = cret
            /\ cpc' = [cpc EXCEPT ![c] = "C65"]
    /\ UNCHANGED <<copilotToken, exchanges, cnow, othersOfCopilot>>

\* line 65
CopilotLock(c) ==
    /\ cpc[c] = "C65"
    /\ CanLock
    /\ cmu' = [cmu EXCEPT !.writer = c]
    /\ cpc' = [cpc EXCEPT ![c] = "C69"]
    /\ UNCHANGED <<copilotToken, cret, exchanges, cnow, othersOfCopilot>>

CopilotUnlock(c) == [cmu EXCEPT !.writer = IF @ = c THEN 0 ELSE @]

\* lines 69-80: the double check; then getGitHubToken, which may fail; then
\* the exchange request is sent
CopilotRecheck(c) ==
    /\ cpc[c] = "C69"
    /\ \/ /\ CopilotTokenValid
          /\ cret' = [cret EXCEPT ![c].token = copilotToken.Token]
          /\ cpc' = [cpc EXCEPT ![c] = "returned"]
          /\ cmu' = CopilotUnlock(c)
          /\ exchanges' = exchanges
       \/ /\ ~CopilotTokenValid
          /\ \E github \in BOOLEAN :
                IF github
                THEN /\ exchanges' = [started |-> exchanges.started + 1,
                                      inFlight |-> exchanges.inFlight \cup {c}]
                     /\ cret' = [cret EXCEPT ![c].exchanged = TRUE]
                     /\ cpc' = [cpc EXCEPT ![c] = "C102"]
                     /\ cmu' = cmu
                ELSE /\ cret' = [cret EXCEPT ![c].err = TRUE]
                     /\ cpc' = [cpc EXCEPT ![c] = "returned"]
                     /\ cmu' = CopilotUnlock(c)
                     /\ exchanges' = exchanges
    /\ UNCHANGED <<copilotToken, cnow, othersOfCopilot>>

\* refreshCopilotToken lines 102-128 and getCopilotToken lines 81-86: the
\* response of the exchange
CopilotExchanged(c) ==
    /\ cpc[c] = "C102"
    /\ exchanges' = [exchanges EXCEPT !.inFlight = @ \ {c}]
    /\ cmu' = CopilotUnlock(c)
    /\ cpc' = [cpc EXCEPT ![c] = "returned"]
    /\ \E ok \in BOOLEAN, lifetime \in CopilotLifetimes :
          IF ok
          THEN /\ copilotToken' = [present |-> TRUE, Token |-> exchanges.started,
                                   ExpiresAt |-> cnow + lifetime]
               /\ cret' = [cret EXCEPT ![c].token = exchanges.started]
          ELSE /\ copilotToken' = copilotToken
               /\ cret' = [cret EXCEPT ![c].err = TRUE]
    /\ UNCHANGED <<cnow, othersOfCopilot>>

CopilotTick ==
    /\ \E d \in CopilotClockSteps : cnow + d <= MaxCopilotNow /\ cnow' = cnow + d
    /\ UNCHANGED <<copilotToken, cmu, cpc, cret, exchanges, othersOfCopilot>>

CopilotInit ==
    /\ copilotToken = NoCopilotToken
    /\ cmu = [readers |-> {}, writer |-> 0]
    /\ cpc = [c \in Clients |-> "idle"]
    /\ cret = [c \in Clients |-> [token |-> 0, err |-> FALSE, exchanged |-> FALSE,
                                  startToken |-> 0]]
    /\ exchanges = [started |-> 0, inFlight |-> {}]
    /\ cnow = 0
    /\ StreamIdle /\ HandlerIdle /\ StoreIdle /\ InstructionsIdle /\ ModelsCacheIdle /\ CallIdle /\ ReaderIdle /\ ChatIdle /\ GetModelsIdle /\ CopilotStreamIdle /\ ClientIdle /\ BodyIdle

CopilotNext ==
    \/ \E c \in Clients :
        \/ CallGetCopilotToken(c)
        \/ CopilotRLock(c)
        \/ CopilotCheck(c)
        \/ CopilotLock(c)
        \/ CopilotRecheck(c)
        \/ CopilotExchanged(c)
    \/ CopilotTick

SpecCopilot == CopilotInit /\ [][CopilotNext]_vars

\* the call of c has returned, and the token that was cached when the call
\* began is the cached token and is outside the 60 s margin
ServedFromCache(c) ==
    /\ cpc[c] = "returned"
    /\ copilotToken.present
    /\ cret[c].startToken = copilotToken.Token
    /\ cnow + CopilotMargin < copilotToken.ExpiresAt

\* C6: at most one token exchange is in flight at any time; and a call made
\* while the cached token satisfies now + 60s < expires_at returns that token
\* without performing an exchange.
C6_SingleExchange ==
    /\ Cardinality(exchanges.inFlight) <= 1
    /\ \A c \in Clients :
          ServedFromCache(c)
          => (~cret[c].exchanged /\ ~cret[c].err
              /\ cret[c].token = copilotToken.Token)

\* one caller has made the exchange, and another call that began afterwards
\* was served the cached token without an exchange
C6_Witness ==
    \E c, d \in Clients :
        /\ c # d
        /\ ServedFromCache(c)
        /\ ~cret[c].exchanged /\ cret[c].token = copilotToken.Token
        /\ cpc[d] = "returned" /\ cret[d].exchanged
        /\ cret[d].token = copilotToken.Token

\* C11: when frames were already written and an upstream failure is reported
\* as an error frame, no chunk frame and no usage frame is written after that
\* error frame: only [DONE] (or a further error frame) follows it.
C11_ErrorFrameLast ==
    ~clientGone
    => \A k \in 2..Len(frames) :
          frames[k].kind = "error"
          => \A j \in (k + 1)..Len(frames) : frames[j].kind \in {"error", "done"}

(***************************************************************************)
(* The ChatGPT model table (chatgpt/models.go).                            *)
(***************************************************************************)
ModelConfig(pf, none, xhigh, def, min) ==
    [PromptFile |-> pf, SupportsNone |-> none, SupportsXHigh |-> xhigh,
     DefaultEffort |-> def, MinEffort |-> min]

modelConfigs ==
    ("gpt-5.2-codex" :> ModelConfig("gpt-5.2-codex_prompt.md", FALSE, TRUE, "medium", "low"))
    @@ ("gpt-5.1-codex-max" :> ModelConfig("gpt-5.1-codex-max_prompt.md", FALSE, TRUE, "high", "low"))
    @@ ("gpt-5.1-codex" :> ModelConfig("gpt_5_codex_prompt.md", FALSE, FALSE, "medium", "low"))
    @@ ("gpt-5-codex" :> ModelConfig("gpt_5_codex_prompt.md", FALSE, FALSE, "medium", "low"))
    @@ ("gpt-5.1-codex-mini" :> ModelConfig("gpt_5_codex_prompt.md", FALSE, FALSE, "medium", "medium"))
    @@ ("gpt-5.2" :> ModelConfig("gpt_5_2_prompt.md", TRUE, TRUE, "medium", "none"))
    @@ ("gpt-5.1" :> ModelConfig("gpt_5_1_prompt.md", TRUE, FALSE, "medium", "none"))
    @@ ("gpt-5" :> ModelConfig("gpt_5_1_prompt.md", TRUE, FALSE, "medium", "none"))

\* a model id that is not in the table
UnknownModel == "gpt-unknown"

GetPromptFile(modelID) ==
    IF modelID \in DOMAIN modelConfigs
    THEN modelConfigs[modelID].PromptFile
    ELSE "gpt_5_codex_prompt.md"

\* the prompt files of the table, the fallback of GetPromptFile first
PromptFileList ==
    <<"gpt_5_codex_prompt.md", "gpt-5.2-codex_prompt.md", "gpt-5.1-codex-max_prompt.md",
      "gpt_5_2_prompt.md", "gpt_5_1_prompt.md">>

\* GetAllPromptFiles, cut to the first two prompt files of the table
GetAllPromptFiles == {PromptFileList[1], PromptFileList[2]}

\* the model ids Get is called with: those whose prompt file is in the cut
InstrModels ==
    {m \in DOMAIN modelConfigs \cup {UnknownModel} : GetPromptFile(m) \in GetAllPromptFiles}

(***************************************************************************)
(* cmdServe, Server.PrefetchInstructions, Server.Start (main.go,           *)
(* server.go) and the InstructionsCache (part_005).                        *)
(***************************************************************************)
MaxInstrNow == 1       \* the clock stops here
RefreshInterval == 1   \* InstructionsCache.refreshInterval, in clock steps

\* Registry.ListMetas: the registered providers, sorted by id
ListMetas == <<"chatgpt", "copilot">>

UpstreamBody == Str("up")   \* the body of a 200 answer of GitHub
DiskBody == Str("disk")     \* the content of a disk cache written by an earlier run

cacheEntry(content) == [content |-> content, fetchedAt |-> instrNow]

NoLoop == [running |-> FALSE, todo |-> {}, errs |-> 0]
IdleLoops == [prefetch |-> NoLoop, refreshAll |-> NoLoop, RefreshAll |-> NoLoop]
StartLoop == [running |-> TRUE, todo |-> GetAllPromptFiles, errs |-> 0]

\* a cache that drops the entry of the file whose fetch failed
DropOnFailure(c, f) == Del(c, f)
\* what a fetch that failed leaves in the memory cache: the prior entries
KeepOnFailure(c, f) == c

othersOfInstr == <<streamVars, handlerVars, storeVars, copilotVars, modelsVars, callVars, sseVars, chatVars, getVars, csVars, closeVars, bodyVars>>

\* the entry is stored and remembered as the last good load of the file
StoreEntry(f, content) ==
    /\ instrCache' = Put(instrCache, f, cacheEntry(content))
    /\ instrGood' = Put(instrGood, f, cacheEntry(content))

\* ---- Server.PrefetchInstructions: Init of every active lifecycle provider
InitSkip ==
    /\ srv.pc = "init" /\ srv.idx <= Len(ListMetas)
    /\ ListMetas[srv.idx] \notin srv.active
    /\ srv' = [srv EXCEPT !.idx = @ + 1]
    /\ UNCHANGED <<instrCache, instrDisk, instrNow, instrLoops, instrBg, instrSaves,
                   instrGet, instrGood, othersOfInstr>>

\* copilot.Provider.Init: returns nil whatever GetModels found
InitCopilot ==
    /\ srv.pc = "init" /\ srv.idx <= Len(ListMetas)
    /\ ListMetas[srv.idx] \in srv.active /\ ListMetas[srv.idx] = "copilot"
    /\ srv' = [srv EXCEPT !.idx = @ + 1, !.inited = @ \cup {"copilot"}]
    /\ UNCHANGED <<instrCache, instrDisk, instrNow, instrLoops, instrBg, instrSaves,
                   instrGet, instrGood, othersOfInstr>>

\* chatgpt.Provider.Init: Client.PrefetchInstructions, InstructionsCache.Prefetch
InitChatGPT ==
    /\ srv.pc = "init" /\ srv.idx <= Len(ListMetas)
    /\ ListMetas[srv.idx] \in srv.active /\ ListMetas[srv.idx] = "chatgpt"
    /\ srv' = [srv EXCEPT !.pc = "prefetch"]
    /\ instrLoops' = [instrLoops EXCEPT !.prefetch = StartLoop]
    /\ UNCHANGED <<instrCache, instrDisk, instrNow, instrBg, instrSaves, instrGet,
                   instrGood, othersOfInstr>>

\* one turn of the loop of Prefetch: prefetchOne(f), GitHub first, then disk
PrefetchOne(f, github) ==
    /\ srv.pc = "prefetch" /\ f \in instrLoops.prefetch.todo
    /\ IF github
       THEN /\ StoreEntry(f, UpstreamBody)
            /\ instrSaves' = instrSaves \cup {<<f, UpstreamBody>>}
            /\ instrLoops' = [instrLoops EXCEPT !.prefetch.todo = @ \ {f}]
       ELSE IF Has(instrDisk, f)
       THEN /\ StoreEntry(f, instrDisk[f])
            /\ instrLoops' = [instrLoops EXCEPT !.prefetch.todo = @ \ {f}]
            /\ UNCHANGED instrSaves
       ELSE /\ instrLoops' = [instrLoops EXCEPT !.prefetch.todo = @ \ {f},
                                                !.prefetch.errs = @ + 1]
            /\ UNCHANGED <<instrCache, instrGood, instrSaves>>
    /\ UNCHANGED <<srv, instrDisk, instrNow, instrBg, instrGet, othersOfInstr>>

\* a Prefetch that returns nil whatever failed
PrefetchNeverFails(errs) == FALSE
\* Prefetch returns an error when the fetch of some file failed
PrefetchFails(errs) == errs > 0

\* Prefetch returns; on an error Init fails, PrefetchInstructions fails and
\* cmdServe exits
PrefetchReturn ==
    /\ srv.pc = "prefetch" /\ instrLoops.prefetch.todo = {}
    /\ IF PrefetchFails(instrLoops.prefetch.errs)
       THEN srv' = [srv EXCEPT !.pc = "exit"]
       ELSE srv' = [srv EXCEPT !.pc = "init", !.idx = @ + 1, !.inited = @ \cup {"chatgpt"}]
    /\ instrLoops' = [instrLoops EXCEPT !.prefetch.running = FALSE]
    /\ UNCHANGED <<instrCache, instrDisk, instrNow, instrBg, instrSaves, instrGet,
                   instrGood, othersOfInstr>>

\* PrefetchInstructions returned nil: cmdServe runs Server.Start in a goroutine
InitDone ==
    /\ srv.pc = "init" /\ srv.idx > Len(ListMetas)
    /\ srv' = [srv EXCEPT !.pc = "start", !.idx = 1]
    /\ UNCHANGED <<instrCache, instrDisk, instrNow, instrLoops, instrBg, instrSaves,
                   instrGet, instrGood, othersOfInstr>>

\* Server.Start: Start of every active lifecycle provider (the background
\* refresh task of the provider begins)
StartProvider ==
    /\ srv.pc = "start" /\ srv.idx <= Len(ListMetas)
    /\ srv' = [srv EXCEPT !.idx = @ + 1,
                          !.started = IF ListMetas[srv.idx] \in srv.active
                                      THEN @ \cup {ListMetas[srv.idx]} ELSE @]
    /\ UNCHANGED <<instrCache, instrDisk, instrNow, instrLoops, instrBg, instrSaves,
                   instrGet, instrGood, othersOfInstr>>

\* Server.Start: httpServer.ListenAndServe
Listen ==
    /\ srv.pc = "start" /\ srv.idx > Len(ListMetas)
    /\ srv' = [srv EXCEPT !.pc = "listening"]
    /\ UNCHANGED <<instrCache, instrDisk, instrNow, instrLoops, instrBg, instrSaves,
                   instrGet, instrGood, othersOfInstr>>

\* ---- the background task: the ticker fires and refreshAll begins
RefreshTick ==
    /\ "chatgpt" \in srv.started /\ ~instrLoops.refreshAll.running
    /\ instrLoops' = [instrLoops EXCEPT !.refreshAll = StartLoop]
    /\ UNCHANGED <<srv, instrCache, instrDisk, instrNow, instrBg, instrSaves, instrGet,
                   instrGood, othersOfInstr>>

\* RefreshAll collects the errors of its fetches, refreshAll only logs them
Errs(loop) == IF loop = "RefreshAll" THEN 1 ELSE 0

\* one turn of a refresh loop (refreshAll or RefreshAll): fetchFromGitHub(f)
RefreshOne(loop, f, github) ==
    /\ instrLoops[loop].running /\ f \in instrLoops[loop].todo
    /\ IF github
       THEN /\ StoreEntry(f, UpstreamBody)
            /\ instrSaves' = instrSaves \cup {<<f, UpstreamBody>>}
            /\ instrLoops' = [instrLoops EXCEPT ![loop].todo = @ \ {f}]
       ELSE /\ instrCache' = KeepOnFailure(instrCache, f)
            /\ instrLoops' = [instrLoops EXCEPT ![loop].todo = @ \ {f},
                                                ![loop].errs = Errs(loop)]
            /\ UNCHANGED <<instrGood, instrSaves>>
    /\ UNCHANGED <<srv, instrDisk, instrNow, instrBg, instrGet, othersOfInstr>>

\* the loop is over (RefreshAll also when its context is cancelled)
RefreshReturn(loop) ==
    /\ instrLoops[loop].running
    /\ instrLoops[loop].todo = {} \/ loop = "RefreshAll"
    /\ instrLoops' = [instrLoops EXCEPT ![loop] = NoLoop]
    /\ UNCHANGED <<srv, instrCache, instrDisk, instrNow, instrBg, instrSaves, instrGet,
                   instrGood, othersOfInstr>>

\* Provider.RefreshModels: InstructionsCache.RefreshAll is called
CallRefreshAll ==
    /\ "chatgpt" \in srv.inited /\ ~instrLoops.RefreshAll.running
    /\ instrLoops' = [instrLoops EXCEPT !.RefreshAll = StartLoop]
    /\ UNCHANGED <<srv, instrCache, instrDisk, instrNow, instrBg, instrSaves, instrGet,
                   instrGood, othersOfInstr>>

\* ---- InstructionsCache.Get(modelID), called by a request the server serves
GetResult(m, content, failed, hit) ==
    [valid |-> TRUE, file |-> GetPromptFile(m), content |-> content, err |-> failed,
     hit |-> hit]

GetFresh(m) ==
    LET f == GetPromptFile(m) IN
    /\ Has(instrCache, f) /\ instrNow - instrCache[f].fetchedAt < RefreshInterval
    /\ instrGet' = GetResult(m, instrCache[f].content, FALSE, TRUE)
    /\ UNCHANGED <<instrCache, instrGood, instrBg, instrSaves>>

GetStale(m) ==
    LET f == GetPromptFile(m) IN
    /\ Has(instrCache, f) /\ ~(instrNow - instrCache[f].fetchedAt < RefreshInterval)
    /\ instrBg' = instrBg \cup {f}
    /\ instrGet' = GetResult(m, instrCache[f].content, FALSE, TRUE)
    /\ UNCHANGED <<instrCache, instrGood, instrSaves>>

GetMissing(m, github) ==
    LET f == GetPromptFile(m) IN
    /\ ~Has(instrCache, f)
    /\ IF Has(instrDisk, f) /\ instrDisk[f] # EmptyStr
       THEN /\ StoreEntry(f, instrDisk[f])
            /\ instrGet' = GetResult(m, instrDisk[f], FALSE, FALSE)
            /\ UNCHANGED instrSaves
       ELSE IF github
       THEN /\ StoreEntry(f, UpstreamBody)
            /\ instrSaves' = instrSaves \cup {<<f, UpstreamBody>>}
            /\ instrGet' = GetResult(m, UpstreamBody, FALSE, FALSE)
       ELSE /\ instrGet' = GetResult(m, EmptyStr, TRUE, FALSE)
            /\ UNCHANGED <<instrCache, instrGood, instrSaves>>
    /\ UNCHANGED instrBg

Get(m, github) ==
    /\ srv.pc = "listening"
    /\ GetFresh(m) \/ GetStale(m) \/ GetMissing(m, github)
    /\ UNCHANGED <<srv, instrDisk, instrNow, instrLoops, othersOfInstr>>

\* the goroutine Get spawned for a stale entry fetches
BgFetch(f, github) ==
    /\ f \in instrBg
    /\ instrBg' = instrBg \ {f}
    /\ IF github
       THEN /\ StoreEntry(f, UpstreamBody)
            /\ instrSaves' = instrSaves \cup {<<f, UpstreamBody>>}
       ELSE /\ instrCache' = KeepOnFailure(instrCache, f)
            /\ UNCHANGED <<instrGood, instrSaves>>
    /\ UNCHANGED <<srv, instrDisk, instrNow, instrLoops, instrGet, othersOfInstr>>

\* a saveToDisk goroutine writes, or fails to
SaveToDisk(s, written) ==
    /\ s \in instrSaves /\ srv.pc # "exit"
    /\ instrSaves' = instrSaves \ {s}
    /\ instrDisk' = IF written THEN Put(instrDisk, s[1], s[2]) ELSE instrDisk
    /\ UNCHANGED <<srv, instrCache, instrNow, instrLoops, instrBg, instrGet, instrGood,
                   othersOfInstr>>

InstrTick ==
    /\ instrNow < MaxInstrNow
    /\ srv.pc = "listening"
    /\ instrNow' = instrNow + 1
    /\ UNCHANGED <<srv, instrCache, instrDisk, instrLoops, instrBg, instrSaves, instrGet,
                   instrGood, othersOfInstr>>

\* the disk caches an earlier run may have left: none, or one file only
InitialDisks == {EmptyMap, [f \in {PromptFileList[1]} |-> DiskBody]}

InstrInit ==
    /\ srv \in {[pc |-> "init", idx |-> 1, active |-> a, inited |-> {}, started |-> {}] :
                a \in SUBSET {"chatgpt", "copilot"} \ {{}}}
    /\ instrCache = EmptyMap
    /\ instrDisk \in InitialDisks
    /\ instrNow = 0
    /\ instrLoops = IdleLoops
    /\ instrBg = {}
    /\ instrSaves = {}
    /\ instrGet = [valid |-> FALSE]
    /\ instrGood = EmptyMap
    /\ StreamIdle /\ HandlerIdle /\ StoreIdle /\ CopilotIdle /\ ModelsCacheIdle /\ CallIdle /\ ReaderIdle /\ ChatIdle /\ GetModelsIdle /\ CopilotStreamIdle /\ ClientIdle /\ BodyIdle

PrefetchStep == \E f \in GetAllPromptFiles, github \in BOOLEAN : PrefetchOne(f, github)
RefreshAllStep ==
    \E loop \in {"refreshAll", "RefreshAll"}, f \in GetAllPromptFiles, github \in BOOLEAN :
        RefreshOne(loop, f, github)
RefreshReturnStep == \E loop \in {"refreshAll", "RefreshAll"} : RefreshReturn(loop)
GetStep == \E m \in InstrModels, github \in BOOLEAN : Get(m, github)
BgFetchStep == \E f \in GetAllPromptFiles, github \in BOOLEAN : BgFetch(f, github)
SaveStep == \E s \in instrSaves, written \in BOOLEAN : SaveToDisk(s, written)

InstrNext ==
    \/ InitSkip
    \/ InitCopilot
    \/ InitChatGPT
    \/ PrefetchStep
    \/ PrefetchReturn
    \/ InitDone
    \/ StartProvider
    \/ Listen
    \/ RefreshTick
    \/ RefreshAllStep
    \/ RefreshReturnStep
    \/ CallRefreshAll
    \/ GetStep
    \/ BgFetchStep
    \/ SaveStep
    \/ InstrTick

SpecInstructions == InstrInit /\ [][InstrNext]_vars

\* Prefetch has returned nil
PrefetchSucceeded == "chatgpt" \in srv.inited

\* C12: once Prefetch has succeeded, every prompt file keeps the memory entry
\* of its last successful load (a failed fetch neither removes nor changes
\* it), and every Get finds the entry and returns its content without error.
C12_GetNeverFails ==
    PrefetchSucceeded
    => /\ \A f \in GetAllPromptFiles :
             Has(instrCache, f) /\ Has(instrGood, f) /\ instrCache[f] = instrGood[f]
                 /\ instrCache[f].content # EmptyStr
       /\ instrGet.valid
          => ~instrGet.err /\ instrGet.hit /\ instrGet.content # EmptyStr

\* a Get answered from a stale entry while a fetch of RefreshAll has failed
C12_Witness ==
    /\ PrefetchSucceeded
    /\ instrGet.valid /\ ~instrGet.err
    /\ instrLoops.RefreshAll.errs = 1
    /\ instrNow - instrCache[instrGet.file].fetchedAt >= RefreshInterval

\* prefetchOne has failed for some prompt file, from GitHub and from disk
PrefetchFailed == instrLoops.prefetch.errs > 0

\* C13: the server listens, and a provider is started, only when Init of
\* every active lifecycle provider has returned nil; when the prefetch of some
\* prompt file failed from GitHub and from disk, Init of the ChatGPT provider
\* does not succeed, the server does not listen, no provider is started and no
\* refresh runs.
C13_ListenAfterInit ==
    /\ srv.pc = "listening" \/ srv.started # {} => srv.inited = srv.active
    /\ PrefetchFailed
       => /\ "chatgpt" \notin srv.inited
          /\ srv.pc \in {"prefetch", "exit"}
          /\ srv.started = {}
          /\ ~instrLoops.refreshAll.running

\* cmdServe has exited after a prefetch in which one file was loaded and
\* another failed, with the Copilot provider active as well
C13_Witness ==
    /\ srv.pc = "exit" /\ PrefetchFailed
    /\ srv.active = {"chatgpt", "copilot"}
    /\ \E f \in GetAllPromptFiles : Has(instrCache, f)

(***************************************************************************)
(* copilot.ModelsCache: StartBackgroundRefresh and StopBackgroundRefresh   *)
(* called from several goroutines (copilot/models.go:287-339).             *)
(***************************************************************************)
NumMcCallers == 2   \* goroutines that call Start/StopBackgroundRefresh
MaxMcCalls == 4     \* calls made in one run

McThreads == 1..NumMcCallers
McIdle == [op |-> "none", pc |-> "idle"]

othersOfModels == <<streamVars, handlerVars, storeVars, copilotVars, instrVars, callVars, sseVars, chatVars, getVars, csVars, closeVars, bodyVars>>

\* a guard that never finds the task started
NeverStarted(started) == FALSE
\* the guard of StartBackgroundRefresh: if c.refreshStarted { return }
AlreadyStarted(started) == started

\* StartBackgroundRefresh is entered; it returns at once when cacheTTL <= 0
CallStart(t) ==
    /\ ~mcPanic /\ mcpc[t].pc = "idle" /\ Len(mcCalls) < MaxMcCalls
    /\ mcCalls' = Append(mcCalls, <<t, "Start">>)
    /\ mcpc' = IF cacheTTL <= 0 THEN mcpc
               ELSE [mcpc EXCEPT ![t] = [op |-> "Start", pc |-> "lock"]]
    /\ UNCHANGED <<cacheTTL, refreshStarted, mcMu, stopRefresh, refreshDone, mcTask,
                   mcPanic, othersOfModels>>

\* StopBackgroundRefresh is entered
CallStop(t) ==
    /\ ~mcPanic /\ mcpc[t].pc = "idle" /\ Len(mcCalls) < MaxMcCalls
    /\ mcCalls' = Append(mcCalls, <<t, "Stop">>)
    /\ mcpc' = [mcpc EXCEPT ![t] = [op |-> "Stop", pc |-> "lock"]]
    /\ UNCHANGED <<cacheTTL, refreshStarted, mcMu, stopRefresh, refreshDone, mcTask,
                   mcPanic, othersOfModels>>

\* c.mu.Lock()
McLock(t) ==
    /\ ~mcPanic /\ mcpc[t].pc = "lock" /\ mcMu = 0
    /\ mcMu' = t
    /\ mcpc' = [mcpc EXCEPT ![t].pc = "locked"]
    /\ UNCHANGED <<cacheTTL, refreshStarted, stopRefresh, refreshDone, mcTask, mcCalls,
                   mcPanic, othersOfModels>>

\* Start, under the lock: return when started, else set refreshStarted
StartCheck(t) ==
    /\ ~mcPanic /\ mcpc[t] = [op |-> "Start", pc |-> "locked"]
    /\ mcMu' = 0
    /\ IF AlreadyStarted(refreshStarted)
       THEN /\ mcpc' = [mcpc EXCEPT ![t] = McIdle]
            /\ UNCHANGED refreshStarted
       ELSE /\ refreshStarted' = TRUE
            /\ mcpc' = [mcpc EXCEPT ![t].pc = "spawn"]
    /\ UNCHANGED <<cacheTTL, stopRefresh, refreshDone, mcTask, mcCalls, mcPanic,
                   othersOfModels>>

\* Start: go func() { ... }: the background task is created
StartSpawn(t) ==
    /\ ~mcPanic /\ mcpc[t] = [op |-> "Start", pc |-> "spawn"]
    /\ mcTask' = [created |-> mcTask.created + 1, pc |-> "select"]
    /\ mcpc' = [mcpc EXCEPT ![t] = McIdle]
    /\ UNCHANGED <<cacheTTL, refreshStarted, mcMu, stopRefresh, refreshDone, mcCalls,
                   mcPanic, othersOfModels>>

\* Stop, under the lock: return when the task was never started
StopCheck(t) ==
    /\ ~mcPanic /\ mcpc[t] = [op |-> "Stop", pc |-> "locked"]
    /\ mcMu' = 0
    /\ mcpc' = IF ~refreshStarted THEN [mcpc EXCEPT ![t] = McIdle]
               ELSE [mcpc EXCEPT ![t].pc = "select"]
    /\ UNCHANGED <<cacheTTL, refreshStarted, stopRefresh, refreshDone, mcTask, mcCalls,
                   mcPanic, othersOfModels>>

\* Stop: select { case <-c.stopRefresh: ... default: ... }
StopSelect(t) ==
    /\ ~mcPanic /\ mcpc[t] = [op |-> "Stop", pc |-> "select"]
    /\ mcpc' = [mcpc EXCEPT ![t].pc = IF stopRefresh THEN "wait" ELSE "close"]
    /\ UNCHANGED <<cacheTTL, refreshStarted, mcMu, stopRefresh, refreshDone, mcTask,
                   mcCalls, mcPanic, othersOfModels>>

\* Stop: close(c.stopRefresh) in the default case; closing a closed channel
\* panics
StopClose(t) ==
    /\ ~mcPanic /\ mcpc[t] = [op |-> "Stop", pc |-> "close"]
    /\ IF stopRefresh
       THEN /\ mcPanic' = TRUE
            /\ UNCHANGED <<stopRefresh, mcpc>>
       ELSE /\ stopRefresh' = TRUE
            /\ mcpc' = [mcpc EXCEPT ![t].pc = "wait"]
            /\ UNCHANGED mcPanic
    /\ UNCHANGED <<cacheTTL, refreshStarted, mcMu, refreshDone, mcTask, mcCalls,
                   othersOfModels>>

\* Stop: <-c.refreshDone
StopWait(t) ==
    /\ ~mcPanic /\ mcpc[t] = [op |-> "Stop", pc |-> "wait"]
    /\ refreshDone
    /\ mcpc' = [mcpc EXCEPT ![t] = McIdle]
    /\ UNCHANGED <<cacheTTL, refreshStarted, mcMu, stopRefresh, refreshDone, mcTask,
                   mcCalls, mcPanic, othersOfModels>>

\* the task: case <-c.stopRefresh: return, and the deferred close(c.refreshDone)
TaskStop ==
    /\ ~mcPanic /\ mcTask.pc = "select" /\ stopRefresh
    /\ mcTask' = [mcTask EXCEPT !.pc = "exited"]
    /\ refreshDone' = TRUE
    /\ UNCHANGED <<cacheTTL, refreshStarted, mcMu, stopRefresh, mcpc, mcCalls, mcPanic,
                   othersOfModels>>

\* the task: case <-ticker.C: RefreshModels begins
TaskTick ==
    /\ ~mcPanic /\ mcTask.pc = "select"
    /\ mcTask' = [mcTask EXCEPT !.pc = "refreshing"]
    /\ UNCHANGED <<cacheTTL, refreshStarted, mcMu, stopRefresh, refreshDone, mcpc,
                   mcCalls, mcPanic, othersOfModels>>

\* the task: RefreshModels has returned
TaskRefreshed ==
    /\ ~mcPanic /\ mcTask.pc = "refreshing"
    /\ mcTask' = [mcTask EXCEPT !.pc = "select"]
    /\ UNCHANGED <<cacheTTL, refreshStarted, mcMu, stopRefresh, refreshDone, mcpc,
                   mcCalls, mcPanic, othersOfModels>>

\* NewModelsCache, with a refresh interval that is zero or positive
ModelsInit ==
    /\ cacheTTL \in {0, 1}
    /\ refreshStarted = FALSE
    /\ mcMu = 0
    /\ stopRefresh = FALSE
    /\ refreshDone = FALSE
    /\ mcTask = [created |-> 0, pc |-> "none"]
    /\ mcpc = [t \in McThreads |-> McIdle]
    /\ mcCalls = <<>>
    /\ mcPanic = FALSE
    /\ StreamIdle /\ HandlerIdle /\ StoreIdle /\ CopilotIdle /\ InstructionsIdle /\ CallIdle /\ ReaderIdle /\ ChatIdle /\ GetModelsIdle /\ CopilotStreamIdle /\ ClientIdle /\ BodyIdle

ModelsNext ==
    \/ \E t \in McThreads : CallStart(t)
    \/ \E t \in McThreads : CallStop(t)
    \/ \E t \in McThreads : McLock(t)
    \/ \E t \in McThreads : StartCheck(t)
    \/ \E t \in McThreads : StartSpawn(t)
    \/ \E t \in McThreads : StopCheck(t)
    \/ \E t \in McThreads : StopSelect(t)
    \/ \E t \in McThreads : StopClose(t)
    \/ \E t \in McThreads : StopWait(t)
    \/ TaskStop
    \/ TaskTick
    \/ TaskRefreshed

SpecModelsRefresh == ModelsInit /\ [][ModelsNext]_vars

\* the goroutines that have called StartBackgroundRefresh
StartCallers == {mcCalls[i][1] : i \in {j \in DOMAIN mcCalls : mcCalls[j][2] = "Start"}}

\* C14: however many goroutines call StartBackgroundRefresh, and however
\* often, at most one background task is ever created.
C14_SingleTask == mcTask.created <= 1

\* every goroutine has called Start, all calls have returned, one task exists
C14_Witness ==
    /\ StartCallers = McThreads
    /\ \A t \in McThreads : mcpc[t] = McIdle
    /\ mcTask.created = 1

\* C15: StopBackgroundRefresh never closes the stop channel a second time,
\* whatever goroutines call it and in whatever order.
C15_StopClosesOnce == ~mcPanic

(***************************************************************************)
(* api.WriteUpstreamError (api/models.go:139-162).                         *)
(***************************************************************************)
MinStatus == 100   \* the upstream status codes tried
MaxStatus == 599

ErrorTypeInvalidRequest == "invalid_request_error"
ErrorTypeAuthentication == "authentication_error"
ErrorTypeNotFound == "not_found_error"
ErrorTypeRateLimit == "rate_limit_error"
ErrorTypeServer == "server_error"
ErrorTypeServiceUnavailable == "service_unavailable"

NoParam == "null"   \* a nil code or param

\* what WriteError puts on the wire: the status line and the error detail
WriteError(statusCode, errType, code, param) ==
    [done |-> TRUE, status |-> statusCode, type |-> errType, code |-> code, param |-> param]

WriteServerError == WriteError(500, ErrorTypeServer, NoParam, NoParam)

UpstreamError(statusCode) == [present |-> TRUE, StatusCode |-> statusCode]
NilUpstreamError == [present |-> FALSE, StatusCode |-> 0]

WriteUpstreamError(err) ==
    IF ~err.present THEN WriteServerError
    ELSE CASE err.StatusCode = 400 -> WriteError(400, ErrorTypeInvalidRequest, NoParam, NoParam)
           [] err.StatusCode = 401 -> WriteError(401, ErrorTypeAuthentication, NoParam, NoParam)
           [] err.StatusCode = 403 -> WriteError(403, ErrorTypeAuthentication, NoParam, NoParam)
           [] err.StatusCode = 404 -> WriteError(404, ErrorTypeNotFound, NoParam, NoParam)
           [] err.StatusCode = 429 -> WriteError(429, ErrorTypeRateLimit, NoParam, NoParam)
           [] err.StatusCode \in {503, 502, 504} ->
                 WriteError(err.StatusCode, ErrorTypeServiceUnavailable, NoParam, NoParam)
           [] OTHER -> WriteError(502, ErrorTypeServer, NoParam, NoParam)

othersOfCall == <<streamVars, handlerVars, storeVars, copilotVars, instrVars, modelsVars, sseVars, chatVars, getVars, csVars, closeVars, bodyVars>>

UpstreamErrorInit ==
    /\ fnArg \in {UpstreamError(s) : s \in MinStatus..MaxStatus} \cup {NilUpstreamError}
    /\ fnRes = [done |-> FALSE]
    /\ StreamIdle /\ HandlerIdle /\ StoreIdle /\ CopilotIdle /\ InstructionsIdle /\ ModelsCacheIdle /\ ReaderIdle /\ ChatIdle /\ GetModelsIdle /\ CopilotStreamIdle /\ ClientIdle /\ BodyIdle

CallWriteUpstreamError ==
    /\ ~fnRes.done
    /\ fnRes' = WriteUpstreamError(fnArg)
    /\ UNCHANGED <<fnArg, othersOfCall>>

SpecUpstreamError == UpstreamErrorInit /\ [][CallWriteUpstreamError]_vars

\* C18: 400 is answered 400 invalid_request_error, 401 and 403 the same status
\* with authentication_error, 404 is answered 404 not_found_error, 429 is
\* answered 429 rate_limit_error, and every 5xx the same status or 502 with
\* type service_unavailable.
C18_StatusMapping ==
    fnRes.done /\ fnArg.present
    => LET s == fnArg.StatusCode IN
       /\ s = 400 => fnRes.status = 400 /\ fnRes.type = ErrorTypeInvalidRequest
       /\ s \in {401, 403} => fnRes.status = s /\ fnRes.type = ErrorTypeAuthentication
       /\ s = 404 => fnRes.status = 404 /\ fnRes.type = ErrorTypeNotFound
       /\ s = 429 => fnRes.status = 429 /\ fnRes.type = ErrorTypeRateLimit
       /\ s >= 500 /\ s <= 599
          => fnRes.status \in {s, 502} /\ fnRes.type = ErrorTypeServiceUnavailable

(***************************************************************************)
(* chatgpt.NormalizeReasoningEffort (chatgpt/models.go:82-126).            *)
(***************************************************************************)
effortLevels == <<"none", "low", "medium", "high", "xhigh">>

\* effortIndex: the position of an effort, counted from 0; -1 when absent
effortIndex(effort) ==
    IF \E i \in DOMAIN effortLevels : effortLevels[i] = effort
    THEN (CHOOSE i \in DOMAIN effortLevels : effortLevels[i] = effort) - 1
    ELSE -1

\* the effort is returned as it was requested
KeepEffort(modelID, effort) == effort

NormalizeReasoningEffort(modelID, effort) ==
    IF modelID \notin DOMAIN modelConfigs THEN effort
    ELSE LET cfg == modelConfigs[modelID]
             minOk == effortIndex(cfg.MinEffort) >= 0
             reqOk == effortIndex(effort) >= 0
             minIdx == IF minOk THEN effortIndex(cfg.MinEffort) ELSE 0
             reqIdx == effortIndex(effort)
             clamped == IF reqIdx < minIdx THEN effortLevels[minIdx + 1] ELSE effort
             noNone == IF clamped = "none" /\ ~cfg.SupportsNone THEN "low" ELSE clamped
             noXHigh == IF noNone = "xhigh" /\ ~cfg.SupportsXHigh THEN "high" ELSE noNone
         IN IF ~reqOk THEN cfg.DefaultEffort ELSE noXHigh

\* the efforts a request may name: the enum, the empty string, other words
RequestedEfforts == {"none", "low", "medium", "high", "xhigh", "", "minimal", "HIGH"}

EffortInit ==
    /\ fnArg \in {[modelID |-> m, effort |-> e] :
                     m \in DOMAIN modelConfigs \cup {UnknownModel}, e \in RequestedEfforts}
    /\ fnRes = [done |-> FALSE]
    /\ StreamIdle /\ HandlerIdle /\ StoreIdle /\ CopilotIdle /\ InstructionsIdle /\ ModelsCacheIdle /\ ReaderIdle /\ ChatIdle /\ GetModelsIdle /\ CopilotStreamIdle /\ ClientIdle /\ BodyIdle

CallNormalizeReasoningEffort ==
    /\ ~fnRes.done
    /\ fnRes' = [done |-> TRUE,
                 effort |-> NormalizeReasoningEffort(fnArg.modelID, fnArg.effort)]
    /\ UNCHANGED <<fnArg, othersOfCall>>

SpecEffort == EffortInit /\ [][CallNormalizeReasoningEffort]_vars

\* C20: for a configured model the resolved effort is an effort of the enum
\* that is at least the model's MinEffort, is not none unless the model
\* supports none, is not xhigh unless the model supports xhigh, and is the
\* model's DefaultEffort when the requested effort is outside the enum.
C20_EffortClamped ==
    fnRes.done /\ fnArg.modelID \in DOMAIN modelConfigs
    => LET cfg == modelConfigs[fnArg.modelID] IN
       /\ effortIndex(fnRes.effort) >= effortIndex(cfg.MinEffort)
       /\ fnRes.effort = "none" => cfg.SupportsNone
       /\ fnRes.effort = "xhigh" => cfg.SupportsXHigh
       /\ effortIndex(fnArg.effort) < 0 => fnRes.effort = cfg.DefaultEffort

\* gpt-5.1-codex-mini asked for low is raised to its minimum, medium
C20_Witness ==
    /\ fnRes.done
    /\ fnArg = [modelID |-> "gpt-5.1-codex-mini", effort |-> "low"]
    /\ fnRes.effort = "medium"

(***************************************************************************)
(* sse.Reader.ReadEvent (part_018:34-93).  A line is a string without its  *)
(* "\n"; a field name with its colon ("event:", "data:") is one token, a   *)
(* blank " " is one token, and the payload [DONE] is one token.            *)
(***************************************************************************)
MaxSseEvents == 2   \* events serialized into one body
MaxReads == 4       \* ReadEvent calls on one reader

Blank == " "
DoneMarker == Str("[DONE]")

RECURSIVE TrimLeft(_)
TrimLeft(s) == IF s # <<>> /\ Head(s) = Blank THEN TrimLeft(Tail(s)) ELSE s

RECURSIVE TrimRight(_)
TrimRight(s) ==
    IF s # <<>> /\ s[Len(s)] = Blank THEN TrimRight(SubSeq(s, 1, Len(s) - 1)) ELSE s

\* strings.TrimSpace
TrimSpace(s) == TrimRight(TrimLeft(s))

\* strings.HasPrefix(line, field) for a field name with its colon
HasPrefix(line, field) == line # <<>> /\ Head(line) = field

\* strings.Join(dataLines, "\n")
RECURSIVE JoinLines(_)
JoinLines(ls) ==
    IF ls = <<>> THEN EmptyStr
    ELSE IF Len(ls) = 1 THEN ls[1]
    ELSE ls[1] \o <<"\n">> \o JoinLines(Tail(ls))

SseEvent(name, data) == [Event |-> name, Data |-> data, ID |-> EmptyStr]
ZeroSseEvent == SseEvent(EmptyStr, EmptyStr)
SseEOF == [eof |-> TRUE, event |-> ZeroSseEvent]
SseReturn(ev) == [eof |-> FALSE, event |-> ev]

\* the event ReadEvent returns after its loop
FinishEvent(ev, dataLines) ==
    SseReturn(IF Len(dataLines) > 0 THEN [ev EXCEPT !.Data = JoinLines(dataLines)] ELSE ev)

\* the loop of ReadEvent over the lines still to read: the lines left, the
\* value of r.done and what is returned
RECURSIVE ReadLoop(_, _, _, _)
ReadLoop(lines, isDone, ev, dataLines) ==
    IF lines = <<>>
    THEN \* ReadString returns io.EOF
         [lines |-> lines, done |-> TRUE,
          res |-> IF Len(dataLines) > 0 THEN FinishEvent(ev, dataLines) ELSE SseEOF]
    ELSE LET line == Head(lines)
             rest == Tail(lines)
         IN IF line = <<>>
            THEN IF ev.Event # EmptyStr \/ Len(dataLines) > 0
                 THEN [lines |-> rest, done |-> isDone, res |-> FinishEvent(ev, dataLines)]
                 ELSE ReadLoop(rest, isDone, ev, dataLines)
            ELSE IF HasPrefix(line, "event:")
            THEN ReadLoop(rest, isDone, [ev EXCEPT !.Event = TrimSpace(Tail(line))], dataLines)
            ELSE IF HasPrefix(line, "data:")
            THEN IF TrimSpace(Tail(line)) = DoneMarker
                 THEN [lines |-> rest, done |-> TRUE, res |-> SseEOF]
                 ELSE ReadLoop(rest, isDone, ev, Append(dataLines, TrimSpace(Tail(line))))
            ELSE IF HasPrefix(line, "id:")
            THEN ReadLoop(rest, isDone, [ev EXCEPT !.ID = TrimSpace(Tail(line))], dataLines)
            ELSE ReadLoop(rest, isDone, ev, dataLines)

\* a reader that forgets it has ended
ReadEventAgain(lines, isDone) == ReadLoop(lines, FALSE, ZeroSseEvent, <<>>)

ReadEvent(lines, isDone) ==
    IF isDone THEN [lines |-> lines, done |-> TRUE, res |-> SseEOF]
    ELSE ReadLoop(lines, isDone, ZeroSseEvent, <<>>)

\* the frame of one event: an event: line when it has a name, one data: line,
\* one empty line
Frame(ev) ==
    (IF ev.Event # EmptyStr THEN <<(<<"event:", Blank>> \o ev.Event)>> ELSE <<>>)
    \o <<(<<"data:", Blank>> \o ev.Data)>> \o <<EmptyStr>>

RECURSIVE Serialize(_)
Serialize(es) == IF es = <<>> THEN <<>> ELSE Frame(Head(es)) \o Serialize(Tail(es))

\* the names and payloads of the events tried
SseNames == {EmptyStr, Str("e")}
SsePayloads == {EmptyStr, Str("x"), <<Blank, "x">>, <<"x", Blank>>, DoneMarker}
SseEvents == {SseEvent(n, d) : n \in SseNames, d \in SsePayloads}

RECURSIVE SeqsUpTo(_, _)
SeqsUpTo(S, n) ==
    IF n = 0 THEN {<<>>}
    ELSE SeqsUpTo(S, n - 1)
         \cup {Append(s, x) : s \in {q \in SeqsUpTo(S, n - 1) : Len(q) = n - 1}, x \in S}

othersOfReader == <<streamVars, handlerVars, storeVars, copilotVars, instrVars, modelsVars, callVars, chatVars, getVars, csVars, closeVars, bodyVars>>

ReaderInit ==
    /\ sseInput \in SeqsUpTo(SseEvents, MaxSseEvents)
    /\ sseLines = Serialize(sseInput)
    /\ sseDone = FALSE
    /\ sseOut = <<>>
    /\ StreamIdle /\ HandlerIdle /\ StoreIdle /\ CopilotIdle /\ InstructionsIdle /\ ModelsCacheIdle /\ CallIdle /\ ChatIdle /\ GetModelsIdle /\ CopilotStreamIdle /\ ClientIdle /\ BodyIdle

CallReadEvent ==
    /\ Len(sseOut) < MaxReads
    /\ LET r == ReadEvent(sseLines, sseDone) IN
       /\ sseLines' = r.lines
       /\ sseDone' = r.done
       /\ sseOut' = Append(sseOut, r.res)
    /\ UNCHANGED <<sseInput, othersOfReader>>

SpecReader == ReaderInit /\ [][CallReadEvent]_vars

\* the events before the first one whose payload is [DONE]
RECURSIVE BeforeDone(_)
BeforeDone(es) ==
    IF es = <<>> \/ Head(es).Data = DoneMarker THEN <<>>
    ELSE <<Head(es)>> \o BeforeDone(Tail(es))

\* what the k-th ReadEvent call must return for the serialized events es
Expected(es, k) == IF k <= Len(BeforeDone(es)) THEN SseReturn(BeforeDone(es)[k]) ELSE SseEOF

\* the reader has returned the events in order, then io.EOF
YieldsInput == \A k \in DOMAIN sseOut : sseOut[k] = Expected(sseInput, k)

\* no name and no payload of the event starts or ends with a blank
Trimmed(ev) == TrimSpace(ev.Event) = ev.Event /\ TrimSpace(ev.Data) = ev.Data

\* C19 as stated: for every list of events, the successive ReadEvent calls
\* return the events in order up to a [DONE] payload, then io.EOF at every call.
C19_RoundTripAll == YieldsInput

\* C19 as amended: the same for events whose name and payload neither start
\* nor end with white space.
C19_RoundTrip == (\A i \in DOMAIN sseInput : Trimmed(sseInput[i])) => YieldsInput

\* two events were returned in order, then io.EOF twice
C19_Witness ==
    /\ Len(sseInput) = 2 /\ Len(BeforeDone(sseInput)) = 2
    /\ \A i \in DOMAIN sseInput : Trimmed(sseInput[i])
    /\ sseInput[1] # sseInput[2]
    /\ Len(sseOut) = 4 /\ sseOut[3].eof /\ sseOut[4].eof /\ ~sseOut[1].eof /\ ~sseOut[2].eof

(***************************************************************************)
(* provider.Registry.GetProvider (registry.go:106-133) and the validation  *)
(* of Handlers.ChatCompletions (handlers.go:117-202).  A model string is a *)
(* sequence of tokens in which "/" and "-" are tokens of their own.        *)
(***************************************************************************)
MaxMessages == 2   \* messages of one request

Slash == "/"

\* Registry.metas: the registered providers
metas == {"chatgpt", "copilot"}

\* strings.Index(model, "/"): the first position, 0 when there is none
IndexSlash(model) ==
    IF \E i \in DOMAIN model : model[i] = Slash
    THEN CHOOSE i \in DOMAIN model : model[i] = Slash /\ \A j \in 1..(i - 1) : model[j] # Slash
    ELSE 0

\* lastIndexByte(model, '/'): the last position, 0 when there is none
LastIndexSlash(model) ==
    IF \E i \in DOMAIN model : model[i] = Slash
    THEN CHOOSE i \in DOMAIN model :
             model[i] = Slash /\ \A j \in (i + 1)..Len(model) : model[j] # Slash
    ELSE 0

\* a parser that splits at the last "/"
ParseModelLast(model) ==
    IF LastIndexSlash(model) = 0
    THEN [providerID |-> EmptyStr, modelID |-> EmptyStr, err |-> "no provider prefix"]
    ELSE [providerID |-> SubSeq(model, 1, LastIndexSlash(model) - 1),
          modelID |-> SubSeq(model, LastIndexSlash(model) + 1, Len(model)),
          err |-> "none"]

ParseModel(model) ==
    IF IndexSlash(model) = 0
    THEN [providerID |-> EmptyStr, modelID |-> EmptyStr, err |-> "no provider prefix"]
    ELSE [providerID |-> SubSeq(model, 1, IndexSlash(model) - 1),
          modelID |-> SubSeq(model, IndexSlash(model) + 1, Len(model)),
          err |-> "none"]

\* Registry.GetProvider: the provider, the model id and the error
GetProvider(model) ==
    LET p == ParseModel(model) IN
    IF p.err # "none" THEN [provider |-> "", modelID |-> EmptyStr, err |-> p.err]
    ELSE IF ~(Len(p.providerID) = 1 /\ p.providerID[1] \in providers)
    THEN IF Len(p.providerID) = 1 /\ p.providerID[1] \in metas
         THEN [provider |-> "", modelID |-> EmptyStr, err |-> "requires login"]
         ELSE [provider |-> "", modelID |-> EmptyStr, err |-> "unknown provider"]
    ELSE [provider |-> p.providerID[1], modelID |-> p.modelID, err |-> "none"]

\* the text of a model name: its words, which hold no "-" and no "/"
Words ==
    ("codex" :> <<"codex">>) @@ ("codex-mini" :> <<"codex", "mini">>)
    @@ ("codex-mini-latest" :> <<"codex", "mini", "latest">>)
    @@ ("codex-max" :> <<"codex", "max">>) @@ ("codex-latest" :> <<"codex", "latest">>)
    @@ ("gpt-5" :> <<"gpt", "5">>) @@ ("gpt-5-codex" :> <<"gpt", "5", "codex">>)
    @@ ("gpt-5-latest" :> <<"gpt", "5", "latest">>)
    @@ ("gpt-5-codex-latest" :> <<"gpt", "5", "codex", "latest">>)
    @@ ("gpt-5.1" :> <<"gpt", "5.1">>) @@ ("gpt-5.1-latest" :> <<"gpt", "5.1", "latest">>)
    @@ ("gpt-5.1-codex" :> <<"gpt", "5.1", "codex">>)
    @@ ("gpt-5.1-codex-latest" :> <<"gpt", "5.1", "codex", "latest">>)
    @@ ("gpt-5.1-codex-mini" :> <<"gpt", "5.1", "codex", "mini">>)
    @@ ("gpt-5.1-codex-max" :> <<"gpt", "5.1", "codex", "max">>)
    @@ ("gpt-5.1-codex-max-latest" :> <<"gpt", "5.1", "codex", "max", "latest">>)
    @@ ("gpt-5.2" :> <<"gpt", "5.2">>) @@ ("gpt-5.2-latest" :> <<"gpt", "5.2", "latest">>)
    @@ ("gpt-5.2-codex" :> <<"gpt", "5.2", "codex">>)
    @@ ("gpt-5.2-codex-latest" :> <<"gpt", "5.2", "codex", "latest">>)

Dash == "-"

\* the words joined by "-", a string in which "-" is a token of its own
RECURSIVE Dashed(_)
Dashed(words) ==
    IF Len(words) <= 1 THEN words
    ELSE <<Head(words), Dash>> \o Dashed(Tail(words))

\* the string of a name: a name outside the table is one word
Text(name) == IF name \in DOMAIN Words THEN Dashed(Words[name]) ELSE Str(name)

\* the names of a table whose string is text
Named(names, text) == {k \in names : Text(k) = text}

\* chatgpt.modelAliases
modelAliases ==
    ("codex" :> "gpt-5.1-codex") @@ ("codex-mini" :> "gpt-5.1-codex-mini")
    @@ ("codex-mini-latest" :> "gpt-5.1-codex-mini") @@ ("codex-max" :> "gpt-5.1-codex-max")
    @@ ("gpt-5" :> "gpt-5.1") @@ ("gpt-5-codex" :> "gpt-5.1-codex")
    @@ ("gpt-5-latest" :> "gpt-5.2") @@ ("gpt-5.2-latest" :> "gpt-5.2")
    @@ ("gpt-5.1-latest" :> "gpt-5.1") @@ ("gpt-5-codex-latest" :> "gpt-5.2-codex")
    @@ ("gpt-5.2-codex-latest" :> "gpt-5.2-codex")
    @@ ("gpt-5.1-codex-latest" :> "gpt-5.1-codex") @@ ("codex-latest" :> "gpt-5.2-codex")
    @@ ("gpt-5.1-codex-max-latest" :> "gpt-5.1-codex-max")

effortSuffixes == {"none", "low", "medium", "high", "xhigh"}

\* modelAliases[name], for a name given as a string
IsAlias(name) == Named(DOMAIN modelAliases, name) # {}
Alias(name) == Text(modelAliases[CHOOSE k \in Named(DOMAIN modelAliases, name) : TRUE])

\* the string ends with "-" and the suffix, and is longer than them
HasEffortSuffix(model, suffix) ==
    /\ Len(model) > 2
    /\ model[Len(model) - 1] = Dash
    /\ model[Len(model)] = suffix

\* a parser that finds no suffix
ParseModelWhole(model) == [baseModel |-> model, effort |-> ""]

\* chatgpt.ParseModelWithEffort: the base model and the effort, "" when the
\* name has no effort suffix (no two suffixes can match the same string)
ParseModelWithEffort(model) ==
    IF \E suffix \in effortSuffixes : HasEffortSuffix(model, suffix)
    THEN [baseModel |-> SubSeq(model, 1, Len(model) - 2),
          effort |-> CHOOSE suffix \in effortSuffixes : HasEffortSuffix(model, suffix)]
    ELSE [baseModel |-> model, effort |-> ""]

\* chatgpt.NormalizeModelNameWithEffort: the canonical model name and the
\* effort taken from the name
NormalizeModelNameWithEffort(model) ==
    LET stripped == SubSeq(model, LastIndexSlash(model) + 1, Len(model))
        parsed == ParseModelWithEffort(stripped)
    IN IF IsAlias(parsed.baseModel)
       THEN [model |-> Alias(parsed.baseModel), effort |-> parsed.effort]
       ELSE IF IsAlias(stripped) THEN [model |-> Alias(stripped), effort |-> ""]
       ELSE IF parsed.effort # "" THEN [model |-> parsed.baseModel, effort |-> parsed.effort]
       ELSE [model |-> stripped, effort |-> ""]

\* api.SupportedModels
SupportedModels ==
    {"gpt-5.2-codex", "gpt-5.1-codex-max", "gpt-5.1-codex", "gpt-5-codex", "gpt-5.2",
     "gpt-5.1", "gpt-5", "gpt-5.1-codex-mini"}

IsModelSupported(modelID) == Named(SupportedModels, modelID) # {}

validRoles == {"system", "user", "assistant", "tool"}

WriteBadRequestWithParam(param) ==
    WriteError(400, ErrorTypeInvalidRequest, NoParam, param)
WriteModelNotFound == WriteError(404, ErrorTypeNotFound, "model_not_found", NoParam)
WriteMethodNotAllowed == WriteError(405, ErrorTypeInvalidRequest, NoParam, NoParam)

\* the name of a field of message i, counted from 0 as the handler prints it
MessageParam(i, field) == <<"messages", i - 1, field>>

\* a message passes the loop of handlers.go:165-181
ValidMessage(msg) ==
    msg.Role \in validRoles /\ ~(msg.Role = "tool" /\ msg.ToolCallID = EmptyStr)

\* a validation that does not look at tool_call_id
MessageErrorLax(msg, i) == WriteBadRequestWithParam(MessageParam(i, "role"))
\* what the loop writes for the message that fails
MessageError(msg, i) ==
    IF msg.Role \notin validRoles
    THEN WriteBadRequestWithParam(MessageParam(i, "role"))
    ELSE WriteBadRequestWithParam(MessageParam(i, "tool_call_id"))

\* the first message that fails, 0 when all pass
FirstInvalid(msgs) ==
    IF \E i \in DOMAIN msgs : ~ValidMessage(msgs[i])
    THEN CHOOSE i \in DOMAIN msgs :
             ~ValidMessage(msgs[i]) /\ \A j \in 1..(i - 1) : ValidMessage(msgs[j])
    ELSE 0

\* the error ChatCompletions answers before it builds the upstream request,
\* or no response when the request is valid
Validate(req) ==
    IF req.Method # "POST" THEN WriteMethodNotAllowed
    ELSE IF req.Model = EmptyStr THEN WriteBadRequestWithParam(Str("model"))
    ELSE IF ~IsModelSupported(NormalizeModelNameWithEffort(req.Model).model) THEN WriteModelNotFound
    ELSE IF Len(req.Messages) = 0 THEN WriteBadRequestWithParam(Str("messages"))
    ELSE IF FirstInvalid(req.Messages) # 0
    THEN MessageError(req.Messages[FirstInvalid(req.Messages)], FirstInvalid(req.Messages))
    ELSE [done |-> FALSE]

othersOfChat == <<streamVars, handlerVars, storeVars, copilotVars, instrVars, modelsVars, callVars, sseVars, getVars, csVars, closeVars, bodyVars>>

\* ChatCompletions, up to the end of the validation
ChatValidate ==
    /\ chatPc = "received"
    /\ chatResp' = Validate(chatReq)
    /\ chatPc' = IF Validate(chatReq).done THEN "answered" ELSE "validated"
    /\ UNCHANGED <<providers, chatReq, upstreamSent, othersOfChat>>

\* GetInstructions and TransformRequest: a failure is answered 500
ChatPrepare(ok) ==
    /\ chatPc = "validated"
    /\ chatResp' = IF ok THEN chatResp ELSE WriteServerError
    /\ chatPc' = IF ok THEN "prepared" ELSE "answered"
    /\ UNCHANGED <<providers, chatReq, upstreamSent, othersOfChat>>

\* Client.SendRequest: the request goes upstream, or fails before it is sent
ChatSendRequest(sent, ok) ==
    /\ chatPc = "prepared"
    /\ sent \/ ~ok
    /\ upstreamSent' = IF sent THEN upstreamSent + 1 ELSE upstreamSent
    /\ chatResp' = IF ok THEN chatResp ELSE WriteServerError
    /\ chatPc' = IF ok THEN "upstream" ELSE "answered"
    /\ UNCHANGED <<providers, chatReq, othersOfChat>>

\* the model strings, the messages and the requests tried
ChatModels ==
    {EmptyStr, Text("gpt-5"), Text("nope"), <<"chatgpt", Slash>> \o Text("gpt-5"),
     <<"chatgpt", Slash>> \o Text("gpt-5") \o <<Dash, "high">>,
     <<"chatgpt", Slash, "nope">>, <<"copilot", Slash>> \o Text("gpt-5.1"),
     <<"bogus", Slash>> \o Text("gpt-5"), <<"chatgpt", Slash, "x", Slash, "codex">>}

Message(role, id) == [Role |-> role, ToolCallID |-> id]
ChatMessages ==
    {Message("user", EmptyStr), Message("tool", Str("call_1")), Message("tool", EmptyStr),
     Message("bogus", EmptyStr)}

ChatInit ==
    /\ providers \in SUBSET metas
    /\ chatReq \in {[Method |-> "POST", Model |-> m, Messages |-> ms] :
                       m \in ChatModels, ms \in SeqsUpTo(ChatMessages, MaxMessages)}
    /\ chatPc = "received"
    /\ chatResp = [done |-> FALSE]
    /\ upstreamSent = 0
    /\ StreamIdle /\ HandlerIdle /\ StoreIdle /\ CopilotIdle /\ InstructionsIdle /\ ModelsCacheIdle /\ CallIdle /\ ReaderIdle /\ GetModelsIdle /\ CopilotStreamIdle /\ ClientIdle /\ BodyIdle

ChatNext ==
    \/ ChatValidate
    \/ \E ok \in BOOLEAN : ChatPrepare(ok)
    \/ \E sent \in BOOLEAN, ok \in BOOLEAN : ChatSendRequest(sent, ok)

SpecChat == ChatInit /\ [][ChatNext]_vars

\* the validation of the request is over
ChatValidated == chatPc # "received"

\* C16: a model without "/" is answered 400 on param model; a prefix that
\* names no registered provider is answered model-not-found; a prefix that
\* names a registered provider that is not active is answered 401; only
\* otherwise does the request pass the model check, with the active provider
\* and the model id after the first "/".
C16_Routing ==
    ChatValidated
    => LET m == chatReq.Model
           prefix == SubSeq(m, 1, IndexSlash(m) - 1)
           known == Len(prefix) = 1 /\ prefix[1] \in metas
           active == Len(prefix) = 1 /\ prefix[1] \in providers
       IN /\ IndexSlash(m) = 0 => chatResp = WriteBadRequestWithParam(Str("model"))
          /\ IndexSlash(m) # 0 /\ ~known => chatResp = WriteModelNotFound
          /\ IndexSlash(m) # 0 /\ known /\ ~active
             => chatResp.done /\ chatResp.status = 401
                    /\ chatResp.type = ErrorTypeAuthentication
          /\ IndexSlash(m) # 0 /\ active
             => GetProvider(m) = [provider |-> prefix[1],
                                  modelID |-> SubSeq(m, IndexSlash(m) + 1, Len(m)),
                                  err |-> "none"]

\* the request has a model that passes the model check
ValidModel == chatReq.Model # EmptyStr /\ IsModelSupported(NormalizeModelNameWithEffort(chatReq.Model).model)

\* the messages i with role tool and no tool_call_id
MissingToolCallID ==
    {i \in DOMAIN chatReq.Messages :
        chatReq.Messages[i].Role = "tool" /\ chatReq.Messages[i].ToolCallID = EmptyStr}

\* C17 as stated: with a valid model, an empty messages list is answered 400
\* with param messages, every message i with role tool and no tool_call_id
\* makes the answer 400 with param messages[i].tool_call_id, and nothing is
\* sent upstream.
C17_ValidationAll ==
    ChatValidated /\ ValidModel
    => /\ Len(chatReq.Messages) = 0 => chatResp = WriteBadRequestWithParam(Str("messages"))
       /\ \A i \in MissingToolCallID :
             chatResp = WriteBadRequestWithParam(MessageParam(i, "tool_call_id"))
       /\ Len(chatReq.Messages) = 0 \/ MissingToolCallID # {} => upstreamSent = 0

\* C17 as amended: the same, for the first message that fails the validation.
C17_Validation ==
    ChatValidated /\ ValidModel
    => /\ Len(chatReq.Messages) = 0 => chatResp = WriteBadRequestWithParam(Str("messages"))
       /\ \A i \in MissingToolCallID :
             i = FirstInvalid(chatReq.Messages)
             => chatResp = WriteBadRequestWithParam(MessageParam(i, "tool_call_id"))
       /\ Len(chatReq.Messages) = 0 \/ MissingToolCallID # {}
          => chatResp.done /\ chatResp.status = 400 /\ chatPc = "answered"
                 /\ upstreamSent = 0

\* a valid first message, then a tool message without tool_call_id, answered
C17_Witness ==
    /\ ChatValidated /\ ValidModel
    /\ MissingToolCallID = {2}
    /\ chatResp = WriteBadRequestWithParam(MessageParam(2, "tool_call_id"))

(***************************************************************************)
(* chatgpt.NormalizeModelNameWithEffort over the alias table               *)
(* (chatgpt/models.go:128-201) and the effort chosen by                    *)
(* chatgpt.TransformRequest (part_004:26-53).                              *)
(***************************************************************************)
\* a name followed by "-" and an effort; the name itself when effort is ""
WithEffort(text, effort) == IF effort = "" THEN text ELSE text \o <<Dash, effort>>

\* the names tried: the aliases, the supported models and an unknown name
NormalizeNames == DOMAIN modelAliases \cup SupportedModels \cup {"nope"}

\* the prefixes tried: none, a provider, a provider and a path
NormalizePrefixes == {EmptyStr, <<"chatgpt", Slash>>, <<"x", Slash, "y", Slash>>}

NormalizeInit ==
    /\ fnArg \in {[name |-> n, prefix |-> p, effort |-> e] :
                     n \in NormalizeNames, p \in NormalizePrefixes,
                     e \in effortSuffixes \cup {""}}
    /\ fnRes = [done |-> FALSE]
    /\ StreamIdle /\ HandlerIdle /\ StoreIdle /\ CopilotIdle /\ InstructionsIdle /\ ModelsCacheIdle /\ ReaderIdle /\ ChatIdle /\ GetModelsIdle /\ CopilotStreamIdle /\ ClientIdle /\ BodyIdle

\* the model string of the call
NormalizeArg == fnArg.prefix \o WithEffort(Text(fnArg.name), fnArg.effort)

CallNormalizeModelNameWithEffort ==
    /\ ~fnRes.done
    /\ fnRes' = [done |-> TRUE,
                 normalizedModel |-> NormalizeModelNameWithEffort(NormalizeArg).model,
                 effort |-> NormalizeModelNameWithEffort(NormalizeArg).effort]
    /\ UNCHANGED <<fnArg, othersOfCall>>

SpecNormalize == NormalizeInit /\ [][CallNormalizeModelNameWithEffort]_vars

\* C21: for every name m of the alias table and every effort e,
\* NormalizeModelNameWithEffort(m + "-" + e) is (alias(m), e) and
\* NormalizeModelNameWithEffort(m) is (alias(m), "").
C21_AliasWithEffort ==
    fnRes.done /\ fnArg.name \in DOMAIN modelAliases /\ fnArg.prefix = EmptyStr
    => /\ fnRes.normalizedModel = Text(modelAliases[fnArg.name])
       /\ fnRes.effort = fnArg.effort

\* codex-mini-xhigh is gpt-5.1-codex-mini with effort xhigh
C21_Witness ==
    /\ fnRes.done
    /\ fnArg = [name |-> "codex-mini", prefix |-> EmptyStr, effort |-> "xhigh"]
    /\ fnRes.normalizedModel = <<"gpt", Dash, "5.1", Dash, "codex", Dash, "mini">>
    /\ fnRes.effort = "xhigh"

\* modelConfigs is keyed by names: the key of a string, UnknownModel if none
ConfigKey(text) ==
    IF Named(DOMAIN modelConfigs, text) # {}
    THEN CHOOSE k \in Named(DOMAIN modelConfigs, text) : TRUE
    ELSE UnknownModel

\* the request field is taken even when the name has a suffix
ChooseEffortField(modelEffort, reqEffort, cfgEffort) ==
    IF reqEffort # "" THEN reqEffort
    ELSE IF modelEffort # "" THEN modelEffort ELSE cfgEffort

\* TransformRequest, lines 45-52: the effort before it is normalized
ChooseEffort(modelEffort, reqEffort, cfgEffort) ==
    IF modelEffort # "" THEN modelEffort
    ELSE IF reqEffort # "" THEN reqEffort ELSE cfgEffort

\* TransformRequest: the model and the reasoning effort of the upstream request
TransformRequest(req, cfg) ==
    LET n == NormalizeModelNameWithEffort(req.Model) IN
    [Model |-> n.model,
     Effort |-> NormalizeReasoningEffort(ConfigKey(n.model),
                    ChooseEffort(n.effort, req.ReasoningEffort, cfg.ReasoningEffort))]

\* the names, request efforts and provider defaults tried
TransformNames == {"gpt-5", "gpt-5.1-codex-mini", "gpt-5.2", "codex", "nope"}
TransformEfforts == {"", "none", "low", "high", "xhigh", "minimal"}
ConfigEfforts == {"medium", "low", "xhigh"}

TransformInit ==
    /\ fnArg \in {[name |-> n, prefix |-> p, effort |-> e, ReasoningEffort |-> r, cfg |-> c] :
                     n \in TransformNames, p \in {EmptyStr, <<"chatgpt", Slash>>},
                     e \in effortSuffixes \cup {""}, r \in TransformEfforts,
                     c \in ConfigEfforts}
    /\ fnRes = [done |-> FALSE]
    /\ StreamIdle /\ HandlerIdle /\ StoreIdle /\ CopilotIdle /\ InstructionsIdle /\ ModelsCacheIdle /\ ReaderIdle /\ ChatIdle /\ GetModelsIdle /\ CopilotStreamIdle /\ ClientIdle /\ BodyIdle

CallTransformRequest ==
    /\ ~fnRes.done
    /\ fnRes' = [done |-> TRUE,
                 req |-> TransformRequest([Model |-> NormalizeArg,
                                           ReasoningEffort |-> fnArg.ReasoningEffort],
                                          [ReasoningEffort |-> fnArg.cfg])]
    /\ UNCHANGED <<fnArg, othersOfCall>>

SpecTransform == TransformInit /\ [][CallTransformRequest]_vars

\* C22: the effort sent upstream is the model-name suffix when the name has
\* one, else the request's reasoning_effort when it is not empty, else the
\* provider default; the chosen value is normalized against the policy of
\* the model the name stands for.
C22_EffortPriority ==
    fnRes.done
    => LET chosen == IF fnArg.effort # "" THEN fnArg.effort
                     ELSE IF fnArg.ReasoningEffort # "" THEN fnArg.ReasoningEffort
                     ELSE fnArg.cfg
           model == IF fnArg.name \in DOMAIN modelAliases THEN modelAliases[fnArg.name]
                    ELSE IF fnArg.name \in DOMAIN modelConfigs THEN fnArg.name
                    ELSE UnknownModel
       IN fnRes.req.Effort = NormalizeReasoningEffort(model, chosen)

\* gpt-5.2-high with reasoning_effort low and default medium is sent as high
C22_Witness ==
    /\ fnRes.done
    /\ fnArg.name = "gpt-5.2" /\ fnArg.effort = "high"
    /\ fnArg.ReasoningEffort = "low" /\ fnArg.cfg = "medium"
    /\ fnRes.req.Effort = "high"

(***************************************************************************)
(* provider.ParseModel (registry.go:106-114) over every short string of    *)
(* words and "/".                                                          *)
(***************************************************************************)
MaxModelLen == 5   \* tokens of a model string given to ParseModel

ParseModelInit ==
    /\ fnArg \in SeqsUpTo({"a", "b", Slash}, MaxModelLen)
    /\ fnRes = [done |-> FALSE]
    /\ StreamIdle /\ HandlerIdle /\ StoreIdle /\ CopilotIdle /\ InstructionsIdle /\ ModelsCacheIdle /\ ReaderIdle /\ ChatIdle /\ GetModelsIdle /\ CopilotStreamIdle /\ ClientIdle /\ BodyIdle

CallParseModel ==
    /\ ~fnRes.done
    /\ fnRes' = [done |-> TRUE, ret |-> ParseModel(fnArg)]
    /\ UNCHANGED <<fnArg, othersOfCall>>

SpecParseModel == ParseModelInit /\ [][CallParseModel]_vars

\* C23: ParseModel splits at the first "/" only: a string with a "/" gives
\* the part before the first "/", which holds no "/", and all that follows
\* it, so "a/b/b" gives ("a", "b/b") and "a/" gives ("a", ""); a string
\* without "/" gives an error.
C23_SplitAtFirstSlash ==
    fnRes.done
    => /\ (\A i \in DOMAIN fnArg : fnArg[i] # Slash) => fnRes.ret.err # "none"
       /\ (\E i \in DOMAIN fnArg : fnArg[i] = Slash)
          => /\ fnRes.ret.err = "none"
             /\ \A i \in DOMAIN fnRes.ret.providerID : fnRes.ret.providerID[i] # Slash
             /\ fnRes.ret.providerID \o <<Slash>> \o fnRes.ret.modelID = fnArg
       /\ fnArg = <<"a", Slash, "b", Slash, "b">>
          => fnRes.ret.providerID = Str("a") /\ fnRes.ret.modelID = <<"b", Slash, "b">>
       /\ fnArg = <<"a", Slash>>
          => fnRes.ret.providerID = Str("a") /\ fnRes.ret.modelID = EmptyStr

\* "a/b/b" has been parsed into "a" and "b/b"
C23_Witness ==
    /\ fnRes.done
    /\ fnArg = <<"a", Slash, "b", Slash, "b">>
    /\ fnRes.ret = [providerID |-> Str("a"), modelID |-> <<"b", Slash, "b">>, err |-> "none"]

(***************************************************************************)
(* copilot.ModelsCache.GetModels (copilot/models.go:53-103) with           *)
(* RefreshModels (119-131), updateCache (134-141) and saveToDisk           *)
(* (236-260).  c.mu is held by a writer (mcMu) or free; a read-locked      *)
(* section is one step taken while no writer holds the lock.  The client   *)
(* and its store are set by copilot.New (part_006:137-143) and are never   *)
(* nil, so lines 72-80 are not reached.                                    *)
(***************************************************************************)
MaxModelsNow == 1   \* the clock of the models cache stops advancing here
MaxGetCalls == 3    \* GetModels and RefreshModels calls of one run

\* what fetchFromAPI can return: an error, or a list that is not empty
ApiResults ==
    {[ok |-> FALSE, models |-> <<>>], [ok |-> TRUE, models |-> <<"a">>],
     [ok |-> TRUE, models |-> <<"a", "b">>]}

\* models.json: unreadable, or the list a saveToDisk wrote
DiskStates == {[ok |-> FALSE, models |-> <<>>], [ok |-> TRUE, models |-> <<"d">>]}

GmIdle == [pc |-> "idle"]
NoModel == ""

\* updateCache lines 136-139: the ids of the list, each mapped to true
IDsOf(list) == {list[i] : i \in DOMAIN list}
NoCall == [valid |-> FALSE]

\* a check that takes any cached list for fresh
AnyAge(list, at, ttl) == Len(list) > 0

\* len(c.models) > 0 && time.Since(c.fetchedAt) < c.cacheTTL
Fresh(list, at, ttl) == Len(list) > 0 /\ gmNow - at < ttl

\* the record of a call that returned: the list and age the deciding check
\* saw, what the fetch and the disk gave, and the list returned
CallRecord(fetch, diskRead, ret) ==
    [valid |-> TRUE, cached |-> models, age |-> gmNow - fetchedAt, ttl |-> cacheTTL,
     fetch |-> fetch, disk |-> diskRead, ret |-> ret]
NotTried == [tried |-> FALSE]
Tried(result) == [tried |-> TRUE, ok |-> result.ok, models |-> result.models]

gmRest == <<smPending, lastSupports, refreshStarted, stopRefresh, refreshDone, mcTask, mcpc, mcCalls, mcPanic>>
othersOfGet == <<streamVars, handlerVars, storeVars, copilotVars, instrVars, callVars, sseVars, chatVars, csVars, closeVars, bodyVars>>

\* GetModels is entered
CallGetModels(t) ==
    /\ gmpc[t].pc = "idle" /\ gmCalls < MaxGetCalls
    /\ smPending[t] = NoModel
    /\ gmCalls' = gmCalls + 1
    /\ gmpc' = [gmpc EXCEPT ![t] = [pc |-> "rlock"]]
    /\ UNCHANGED <<models, modelIDs, fetchedAt, gmNow, gmDisk, gmSaves, lastModels, cacheTTL, mcMu,
                   gmRest, othersOfGet>>

\* lines 54-60: the check under the read lock
GetFastPath(t) ==
    /\ gmpc[t].pc = "rlock" /\ mcMu = 0
    /\ IF Fresh(models, fetchedAt, cacheTTL)
       THEN /\ gmpc' = [gmpc EXCEPT ![t] = GmIdle]
            /\ lastModels' = [lastModels EXCEPT ![t] = CallRecord(NotTried, NotTried, models)]
       ELSE /\ gmpc' = [gmpc EXCEPT ![t] = [pc |-> "lock"]]
            /\ UNCHANGED lastModels
    /\ UNCHANGED <<models, modelIDs, fetchedAt, gmNow, gmDisk, gmSaves, gmCalls, cacheTTL, mcMu,
                   gmRest, othersOfGet>>

\* lines 63-69: c.mu.Lock() and the second check; the deferred Unlock runs
\* when the call returns
GetLockAndRecheck(t) ==
    /\ gmpc[t].pc = "lock" /\ mcMu = 0
    /\ IF Fresh(models, fetchedAt, cacheTTL)
       THEN /\ gmpc' = [gmpc EXCEPT ![t] = GmIdle]
            /\ lastModels' = [lastModels EXCEPT ![t] = CallRecord(NotTried, NotTried, models)]
            /\ mcMu' = 0
       ELSE /\ gmpc' = [gmpc EXCEPT ![t] = [pc |-> "fetch", seen |-> CallRecord(NotTried, NotTried, <<>>)]]
            /\ mcMu' = t
            /\ UNCHANGED lastModels
    /\ UNCHANGED <<models, modelIDs, fetchedAt, gmNow, gmDisk, gmSaves, gmCalls, cacheTTL, gmRest,
                   othersOfGet>>

\* lines 83-89: fetchFromAPI returns; on success updateCache, go saveToDisk
GetFetched(t, result) ==
    /\ gmpc[t].pc = "fetch"
    /\ IF result.ok
       THEN /\ models' = result.models
            /\ modelIDs' = IDsOf(result.models)
            /\ fetchedAt' = gmNow
            /\ gmSaves' = gmSaves + 1
            /\ gmpc' = [gmpc EXCEPT ![t] = GmIdle]
            /\ lastModels' = [lastModels EXCEPT ![t] =
                                 [gmpc[t].seen EXCEPT !.fetch = Tried(result),
                                                      !.ret = result.models]]
            /\ mcMu' = 0
       ELSE /\ gmpc' = [gmpc EXCEPT ![t].pc = "disk", ![t].seen.fetch = Tried(result)]
            /\ UNCHANGED <<models, modelIDs, fetchedAt, gmSaves, lastModels, mcMu>>
    /\ UNCHANGED <<gmNow, gmDisk, gmCalls, cacheTTL, gmRest, othersOfGet>>

\* lines 93-102: loadFromDisk; a list that is not empty is cached and returned
GetLoadedFromDisk(t) ==
    /\ gmpc[t].pc = "disk"
    /\ IF gmDisk.ok /\ Len(gmDisk.models) > 0
       THEN /\ models' = gmDisk.models
            /\ modelIDs' = IDsOf(gmDisk.models)
            /\ fetchedAt' = gmNow
            /\ lastModels' = [lastModels EXCEPT ![t] =
                                 [gmpc[t].seen EXCEPT !.disk = Tried(gmDisk),
                                                      !.ret = gmDisk.models]]
       ELSE /\ lastModels' = [lastModels EXCEPT ![t] =
                                 [gmpc[t].seen EXCEPT !.disk = Tried(gmDisk), !.ret = <<>>]]
            /\ UNCHANGED <<models, modelIDs, fetchedAt>>
    /\ gmpc' = [gmpc EXCEPT ![t] = GmIdle]
    /\ mcMu' = 0
    /\ UNCHANGED <<gmNow, gmDisk, gmSaves, gmCalls, cacheTTL, gmRest, othersOfGet>>

\* RefreshModels, lines 119-130, when its fetch succeeded: the update under
\* the write lock, and go saveToDisk
RefreshModels(result) ==
    /\ gmCalls < MaxGetCalls /\ result.ok /\ mcMu = 0
    /\ gmCalls' = gmCalls + 1
    /\ models' = result.models
    /\ modelIDs' = IDsOf(result.models)
    /\ fetchedAt' = gmNow
    /\ gmSaves' = gmSaves + 1
    /\ UNCHANGED <<gmNow, gmDisk, gmpc, lastModels, cacheTTL, mcMu, gmRest, othersOfGet>>

\* saveToDisk: the list read under the read lock is written, or the write fails
SaveModelsToDisk(written) ==
    /\ gmSaves > 0 /\ mcMu = 0
    /\ gmSaves' = gmSaves - 1
    /\ gmDisk' = IF written THEN [ok |-> TRUE, models |-> models] ELSE gmDisk
    /\ UNCHANGED <<models, modelIDs, fetchedAt, gmNow, gmpc, gmCalls, lastModels, cacheTTL, mcMu,
                   gmRest, othersOfGet>>

ModelsTick ==
    /\ gmNow < MaxModelsNow
    /\ gmNow' = gmNow + 1
    /\ UNCHANGED <<models, modelIDs, fetchedAt, gmDisk, gmSaves, gmpc, gmCalls, lastModels, cacheTTL,
                   mcMu, gmRest, othersOfGet>>

\* NewModelsCache: no list, the zero time, a refresh interval of 0 or more
GetModelsInit ==
    /\ models = <<>>
    /\ fetchedAt = 0
    /\ gmNow = 0
    /\ gmDisk \in DiskStates
    /\ gmSaves = 0
    /\ gmpc = [t \in McThreads |-> GmIdle]
    /\ gmCalls = 0
    /\ lastModels = [t \in McThreads |-> NoCall]
    /\ modelIDs = {}
    /\ smPending = [t \in McThreads |-> NoModel]
    /\ lastSupports = [t \in McThreads |-> NoCall]
    /\ cacheTTL \in {0, 1}
    /\ refreshStarted = FALSE
    /\ mcMu = 0
    /\ stopRefresh = FALSE
    /\ refreshDone = FALSE
    /\ mcTask = [created |-> 0, pc |-> "none"]
    /\ mcpc = EmptyMap
    /\ mcCalls = <<>>
    /\ mcPanic = FALSE
    /\ StreamIdle /\ HandlerIdle /\ StoreIdle /\ CopilotIdle /\ InstructionsIdle /\ CallIdle /\ ReaderIdle /\ ChatIdle /\ CopilotStreamIdle /\ ClientIdle /\ BodyIdle

GetModelsNext ==
    \/ \E t \in McThreads : CallGetModels(t)
    \/ \E t \in McThreads : GetFastPath(t)
    \/ \E t \in McThreads : GetLockAndRecheck(t)
    \/ \E t \in McThreads, result \in ApiResults : GetFetched(t, result)
    \/ \E t \in McThreads : GetLoadedFromDisk(t)
    \/ \E result \in ApiResults : RefreshModels(result)
    \/ \E written \in BOOLEAN : SaveModelsToDisk(written)
    \/ ModelsTick

SpecGetModels == GetModelsInit /\ [][GetModelsNext]_vars

\* the deciding check of a call saw a list that was not empty and younger
\* than the refresh interval
SawFresh(r) == Len(r.cached) > 0 /\ r.age < r.ttl

\* C26: a GetModels call whose check sees a list that is not empty and
\* younger than the refresh interval returns that list and fetches nothing;
\* any other call fetches from the API while it holds the writer lock,
\* returns the fetched list when the fetch succeeds and the list of the disk
\* cache when it fails, and returns an empty list only when both the fetch
\* and the disk cache fail.
C26_GetModels ==
    /\ \A t \in McThreads :
          lastModels[t].valid
          => LET r == lastModels[t] IN
             /\ SawFresh(r) => ~r.fetch.tried /\ ~r.disk.tried /\ r.ret = r.cached
             /\ ~SawFresh(r) => r.fetch.tried
             /\ r.fetch.tried /\ r.fetch.ok => r.ret = r.fetch.models /\ ~r.disk.tried
             /\ r.fetch.tried /\ ~r.fetch.ok
                => r.disk.tried /\ (r.disk.ok => r.ret = r.disk.models)
             /\ r.ret = <<>> <=> r.fetch.tried /\ ~r.fetch.ok /\ r.disk.tried /\ ~r.disk.ok
    /\ \A t \in McThreads : gmpc[t].pc \in {"fetch", "disk"} => mcMu = t

\* one call returned the list of the disk cache after its fetch failed, the
\* other returned that list from memory without a fetch
C26_Witness ==
    /\ lastModels[1].valid /\ lastModels[1].fetch.tried /\ ~lastModels[1].fetch.ok
    /\ lastModels[1].ret = <<"d">>
    /\ lastModels[2].valid /\ SawFresh(lastModels[2]) /\ ~lastModels[2].fetch.tried
    /\ lastModels[2].ret = <<"d">>

(***************************************************************************)
(* copilot.Stream (copilot/stream.go): Next (39-101) and                   *)
(* accumulateResponse (104-172).  An upstream event carries a chunk, no    *)
(* data, or data that is not a chunk.  A nil pointer is NilIndex, NoUsage  *)
(* or "".                                                                  *)
(***************************************************************************)
MaxCsEvents == 3   \* upstream events of one Copilot response

NilIndex == -1

CsToolCall(index, id, name, arguments) ==
    [Index |-> index, ID |-> id, Name |-> name, Arguments |-> arguments]
CsDelta(role, content, toolCalls) ==
    [Role |-> role, Content |-> content, ToolCalls |-> toolCalls]
CsChoice(index, delta, finish) == [Index |-> index, Delta |-> delta, FinishReason |-> finish]
CsChunk(choices, usage) == [Choices |-> choices, Usage |-> usage]

\* Message.Content is raw JSON: nil, or the encoding of a string
\* a json.RawMessage content: nil, a JSON string, or a JSON array
NilContent == [set |-> FALSE, kind |-> "null", json |-> EmptyStr]
SetContentString(s) == [set |-> TRUE, kind |-> "string", json |-> s]
MarshalArray(elems) == [set |-> TRUE, kind |-> "array", json |-> elems]

\* errors.go:290-302: the string of a JSON string, "" for anything else
GetContentString(content) ==
    IF content.set /\ content.kind = "string" THEN content.json ELSE EmptyStr

\* errors.go:305-323: the parts of an array, a string wrapped as one text part
GetContentParts(content) ==
    IF ~content.set THEN <<>>
    ELSE IF content.kind = "array" THEN content.json
    ELSE <<[Type |-> "text", Text |-> content.json, ImageURL |-> [present |-> FALSE, URL |-> EmptyStr, Detail |-> ""]]>>

\* &api.Message{Role: "assistant"} in a choice of the response
NewChoice(index) ==
    [Index |-> index, Role |-> "assistant", Content |-> NilContent, ToolCalls |-> <<>>,
     FinishReason |-> ""]

NilResponse == [present |-> FALSE, Choices |-> <<>>, Usage |-> 0]

\* lines 105-120: the response is created from the first chunk
NewResponse(chunk) ==
    [present |-> TRUE,
     Choices |-> [i \in 1..Len(chunk.Choices) |-> NewChoice(chunk.Choices[i].Index)],
     Usage |-> 0]

\* lines 140-144: for len(ToolCalls) <= idx, append an empty tool call
RECURSIVE GrowToolCalls(_, _)
GrowToolCalls(calls, idx) ==
    IF Len(calls) <= idx
    THEN GrowToolCalls(Append(calls, CsToolCall(NilIndex, "", "", EmptyStr)), idx)
    ELSE calls

\* lines 135-154: one tool call delta merged into the tool calls of a message
MergeToolCall(calls, tc) ==
    LET idx == IF tc.Index # NilIndex THEN tc.Index ELSE 0
        grown == GrowToolCalls(calls, idx)
    IN [grown EXCEPT ![idx + 1].ID = IF tc.ID # "" THEN tc.ID ELSE @,
                     ![idx + 1].Name = IF tc.Name # "" THEN tc.Name ELSE @,
                     ![idx + 1].Arguments = @ \o tc.Arguments]

RECURSIVE MergeToolCalls(_, _)
MergeToolCalls(calls, deltas) ==
    IF deltas = <<>> THEN calls
    ELSE MergeToolCalls(MergeToolCall(calls, Head(deltas)), Tail(deltas))

\* lines 124-163 for one choice of the chunk
AccumulateChoice(choices, cc) ==
    IF cc.Index < Len(choices)
    THEN [choices EXCEPT
             ![cc.Index + 1].Content =
                 IF cc.Delta.Content # EmptyStr
                 THEN SetContentString(GetContentString(@) \o cc.Delta.Content) ELSE @,
             ![cc.Index + 1].Role = IF cc.Delta.Role # "" THEN cc.Delta.Role ELSE @,
             ![cc.Index + 1].ToolCalls = MergeToolCalls(@, cc.Delta.ToolCalls),
             ![cc.Index + 1].FinishReason =
                 IF cc.FinishReason # "" THEN cc.FinishReason ELSE @]
    ELSE choices

RECURSIVE AccumulateChoices(_, _)
AccumulateChoices(choices, ccs) ==
    IF ccs = <<>> THEN choices
    ELSE AccumulateChoices(AccumulateChoice(choices, Head(ccs)), Tail(ccs))

\* Stream.accumulateResponse
accumulateResponse(resp, chunk) ==
    LET r == IF resp.present THEN resp ELSE NewResponse(chunk)
    IN [r EXCEPT !.Choices = AccumulateChoices(@, chunk.Choices),
                 !.Usage = IF chunk.Usage # 0 THEN chunk.Usage ELSE @]

\* the events: chunks, an event without data, data that is not a chunk
CsContentChunk(index, content) ==
    CsChunk(<<CsChoice(index, CsDelta("", content, <<>>), "")>>, 0)
CsToolChunk(index, id, name, arguments) ==
    CsChunk(<<CsChoice(0, CsDelta("", EmptyStr,
                                  <<CsToolCall(index, id, name, arguments)>>), "")>>, 0)
CsChunks ==
    {CsChunk(<<>>, 0), CsChunk(<<>>, 7),
     CsChunk(<<CsChoice(0, CsDelta("assistant", EmptyStr, <<>>), "")>>, 0),
     CsContentChunk(0, Str("a")), CsContentChunk(1, Str("c")),
     CsChunk(<<CsChoice(0, CsDelta("", Str("a"), <<>>), ""),
               CsChoice(1, CsDelta("tool", Str("c"), <<>>), "stop")>>, 0),
     CsToolChunk(0, "t", "f", Str("x")), CsToolChunk(NilIndex, "", "", Str("y")),
     CsToolChunk(1, "u", "g", Str("z"))}
CsEvents ==
    {[kind |-> "chunk", chunk |-> c] : c \in CsChunks}
    \cup {[kind |-> k, chunk |-> CsChunk(<<>>, 0)] : k \in {"nodata", "malformed"}}

\* lines 76-86: events that Next skips
RECURSIVE SkipEvents(_)
SkipEvents(evs) ==
    IF evs # <<>> /\ Head(evs).kind # "chunk" THEN SkipEvents(Tail(evs)) ELSE evs

CsReturn(chunk, err) == [chunk |-> chunk, err |-> err]
NilChunk == [Choices |-> <<>>, Usage |-> -1]

othersOfCopilotStream == <<streamVars, handlerVars, storeVars, copilotVars, instrVars, modelsVars, callVars, sseVars, chatVars, getVars, closeVars, bodyVars>>

\* Next on a stream that is done: io.EOF
CopilotNextDone ==
    /\ csStream.done /\ Len(csOut) < MaxCsEvents + 3
    /\ csOut' = Append(csOut, CsReturn(NilChunk, "EOF"))
    /\ UNCHANGED <<csEvents, csStream, csChunks, othersOfCopilotStream>>

\* Next, lines 45-50: the upstream status is not 200
CopilotNextBadStatus ==
    /\ ~csStream.done /\ ~csStream.statusOK
    /\ csStream' = [csStream EXCEPT !.done = TRUE, !.err = TRUE]
    /\ csOut' = Append(csOut, CsReturn(NilChunk, "upstream"))
    /\ UNCHANGED <<csEvents, csChunks, othersOfCopilotStream>>

\* Next, lines 52-100: events are skipped up to a chunk, which is kept when
\* it has usage, accumulated when the request does not stream, and returned
CopilotNextChunk ==
    /\ ~csStream.done /\ csStream.statusOK
    /\ SkipEvents(csEvents) # <<>>
    /\ LET chunk == Head(SkipEvents(csEvents)).chunk IN
       /\ csEvents' = Tail(SkipEvents(csEvents))
       /\ csStream' = [csStream EXCEPT
                          !.lastChunk = IF chunk.Usage # 0 THEN chunk ELSE @,
                          !.response = IF ~csStream.stream
                                       THEN accumulateResponse(@, chunk) ELSE @]
       /\ csOut' = Append(csOut, CsReturn(chunk, "nil"))
       /\ csChunks' = Append(csChunks, chunk)
    /\ UNCHANGED othersOfCopilotStream

\* Next, lines 54-71: the end of the body; the usage chunk when it was asked
\* for and a chunk had usage, else io.EOF
CopilotNextEOF ==
    /\ ~csStream.done /\ csStream.statusOK
    /\ SkipEvents(csEvents) = <<>>
    /\ csEvents' = <<>>
    /\ IF csStream.includeUsage /\ ~csStream.sentUsage /\ csStream.lastChunk # NilChunk
       THEN /\ csStream' = [csStream EXCEPT !.done = TRUE, !.sentUsage = TRUE]
            /\ csOut' = Append(csOut, CsReturn(CsChunk(<<>>, csStream.lastChunk.Usage), "nil"))
       ELSE /\ csStream' = [csStream EXCEPT !.done = TRUE]
            /\ csOut' = Append(csOut, CsReturn(NilChunk, "EOF"))
    /\ UNCHANGED <<csChunks, othersOfCopilotStream>>

\* Next, lines 72-73: reading the body fails
CopilotNextReadError ==
    /\ ~csStream.done /\ csStream.statusOK /\ ~csStream.err
    /\ csStream' = [csStream EXCEPT !.err = TRUE]
    /\ csOut' = Append(csOut, CsReturn(NilChunk, "read"))
    /\ UNCHANGED <<csEvents, csChunks, othersOfCopilotStream>>

\* NewStream, on a response of status 200 with its events or of another status
CopilotStreamInit ==
    /\ \E statusOK \in BOOLEAN, stream \in BOOLEAN, usage \in BOOLEAN :
          /\ csStream = [statusOK |-> statusOK, stream |-> stream,
                         includeUsage |-> usage, done |-> FALSE,
                         response |-> NilResponse, err |-> FALSE, sentUsage |-> FALSE,
                         lastChunk |-> NilChunk]
          /\ csEvents \in IF statusOK THEN SeqsUpTo(CsEvents, MaxCsEvents) ELSE {<<>>}
    /\ csOut = <<>>
    /\ csChunks = <<>>
    /\ StreamIdle /\ HandlerIdle /\ StoreIdle /\ CopilotIdle /\ InstructionsIdle /\ ModelsCacheIdle /\ CallIdle /\ ReaderIdle /\ ChatIdle /\ GetModelsIdle /\ ClientIdle /\ BodyIdle

CopilotStreamNext ==
    \/ CopilotNextDone
    \/ CopilotNextBadStatus
    \/ CopilotNextChunk
    \/ CopilotNextEOF
    \/ CopilotNextReadError

SpecCopilotStream == CopilotStreamInit /\ [][CopilotStreamNext]_vars

\* the deltas of choice index in the chunks parsed so far, in order
DeltasOf(index) ==
    LET OfChunk(chunk) ==
            LET at == {p \in DOMAIN chunk.Choices : chunk.Choices[p].Index = index}
            IN IF at = {} THEN <<>>
               ELSE <<chunk.Choices[CHOOSE p \in at : TRUE].Delta>>
    IN Concat(SeqMap(OfChunk, csChunks))

ContentOfDelta(delta) == delta.Content
RolesOf(index) == SelectSeq(DeltasOf(index), LAMBDA d : d.Role # "")
ToolDeltasOf(index) == Concat(SeqMap(LAMBDA d : d.ToolCalls, DeltasOf(index)))
ToolIndex(tc) == IF tc.Index # NilIndex THEN tc.Index ELSE 0
ArgumentsOf(index, idx) ==
    Concat(SeqMap(LAMBDA tc : tc.Arguments,
                  SelectSeq(ToolDeltasOf(index), LAMBDA tc : ToolIndex(tc) = idx)))

\* C27: for a request that does not stream, the response has for every
\* choice index of the chunks a choice whose content is the concatenation of
\* the delta contents of that index, whose role is the last delta role seen
\* for it, and whose tool calls hold, by index, the concatenation of the
\* argument deltas of that index.
C27_Accumulated ==
    ~csStream.stream
    => \A index \in {0, 1} :
          DeltasOf(index) # <<>>
          => /\ csStream.response.present
             /\ \E p \in DOMAIN csStream.response.Choices :
                   LET choice == csStream.response.Choices[p] IN
                   /\ choice.Index = index
                   /\ GetContentString(choice.Content)
                          = Concat(SeqMap(ContentOfDelta, DeltasOf(index)))
                   /\ RolesOf(index) # <<>>
                      => choice.Role = RolesOf(index)[Len(RolesOf(index))].Role
                   /\ \A tc \in {ToolDeltasOf(index)[k] : k \in DOMAIN ToolDeltasOf(index)} :
                         /\ Len(choice.ToolCalls) > ToolIndex(tc)
                         /\ choice.ToolCalls[ToolIndex(tc) + 1].Arguments
                                = ArgumentsOf(index, ToolIndex(tc))

(***************************************************************************)
(* chatgpt.Client.StartBackgroundRefresh and Close (client.go:62-82) with  *)
(* the goroutine of InstructionsCache.StartBackgroundRefresh and           *)
(* refreshAll (part_005:115-167).  One turn of the loop of refreshAll is   *)
(* one step; the server starts and closes a provider once.                 *)
(***************************************************************************)
MaxBgTicks == 2      \* the times the ticker fires

othersOfClient == <<streamVars, handlerVars, storeVars, copilotVars, instrVars, modelsVars, callVars, sseVars, chatVars, getVars, csVars, bodyVars>>

\* client.go:63-74: return when running, else the context and the goroutine
ClientStartBackgroundRefresh ==
    /\ ~cancelRefresh /\ ~closed /\ bgTask.pc = "none"
    /\ refreshContext' = "live"
    /\ cancelRefresh' = TRUE
    /\ bgTask' = [pc |-> "select", todo |-> {}]
    /\ UNCHANGED <<promptCache, bgTicks, closed, othersOfClient>>

\* client.go:77-82: cancel the context, forget the cancel function, return
ClientClose ==
    /\ ~closed
    /\ IF cancelRefresh
       THEN /\ refreshContext' = "done"
            /\ cancelRefresh' = FALSE
       ELSE UNCHANGED <<refreshContext, cancelRefresh>>
    /\ closed' = TRUE
    /\ UNCHANGED <<bgTask, promptCache, bgTicks, othersOfClient>>

\* part_005:124-126: case <-ctx.Done(): return
BgStopped ==
    /\ bgTask.pc = "select" /\ refreshContext = "done"
    /\ bgTask' = [bgTask EXCEPT !.pc = "exited"]
    /\ UNCHANGED <<cancelRefresh, refreshContext, promptCache, bgTicks, closed,
                   othersOfClient>>

\* part_005:127-128: case <-ticker.C: refreshAll begins; a select with both
\* channels ready takes either case
BgTick ==
    /\ bgTask.pc = "select" /\ bgTicks < MaxBgTicks
    /\ bgTicks' = bgTicks + 1
    /\ bgTask' = [pc |-> "refreshAll", todo |-> GetAllPromptFiles]
    /\ UNCHANGED <<cancelRefresh, refreshContext, promptCache, closed, othersOfClient>>

\* part_005:141-155: one turn of refreshAll; the context is not looked at
BgRefreshOne(f, github) ==
    /\ bgTask.pc = "refreshAll" /\ f \in bgTask.todo
    /\ bgTask' = [bgTask EXCEPT !.todo = @ \ {f}]
    /\ promptCache' = IF github THEN Put(promptCache, f, bgTicks) ELSE promptCache
    /\ UNCHANGED <<cancelRefresh, refreshContext, bgTicks, closed, othersOfClient>>

\* part_005:169-172: refreshAll returns to the select
BgRefreshReturn ==
    /\ bgTask.pc = "refreshAll" /\ bgTask.todo = {}
    /\ bgTask' = [bgTask EXCEPT !.pc = "select"]
    /\ UNCHANGED <<cancelRefresh, refreshContext, promptCache, bgTicks, closed,
                   othersOfClient>>

\* NewClient, after a Prefetch that loaded some of the prompt files
ClientInit ==
    /\ cancelRefresh = FALSE
    /\ refreshContext = "none"
    /\ bgTask = [pc |-> "none", todo |-> {}]
    /\ promptCache \in {[f \in fs |-> 0] : fs \in SUBSET GetAllPromptFiles}
    /\ bgTicks = 0
    /\ closed = FALSE
    /\ StreamIdle /\ HandlerIdle /\ StoreIdle /\ CopilotIdle /\ InstructionsIdle /\ ModelsCacheIdle /\ CallIdle /\ ReaderIdle /\ ChatIdle /\ GetModelsIdle /\ CopilotStreamIdle /\ BodyIdle

BgRefreshStep == \E f \in GetAllPromptFiles, github \in BOOLEAN : BgRefreshOne(f, github)

ClientNext ==
    \/ ClientStartBackgroundRefresh
    \/ ClientClose
    \/ BgStopped
    \/ BgTick
    \/ BgRefreshStep
    \/ BgRefreshReturn

SpecClose == ClientInit /\ [][ClientNext]_vars

\* C29: once Close has returned, the refresh task has terminated: no step
\* changes the instruction cache any more.
C29_NoUpdateAfterClose == [][closed => promptCache' = promptCache]_vars

(***************************************************************************)
(* SpecPartial: ReadEvent on a body that ends inside an event.  The body   *)
(* is the frames of sseInput, then the complete lines of the event that is *)
(* cut off, then its last line without "\n".  ReadString returns that      *)
(* last line together with io.EOF, and ReadEvent returns at line 52 or     *)
(* breaks at line 49 without looking at it (part_018:43-53).               *)
(***************************************************************************)
FieldLines == {<<"event:", Blank, "e">>, <<"data:", Blank, "x">>, <<"data:", Blank, "y">>,
               <<"id:", Blank, "i">>}
MaxPartialLines == 2   \* complete lines of the event that is cut off

\* complete events that a reader returns as they were sent
WholeEvents == {ev \in SseEvents : Trimmed(ev) /\ ev.Data # DoneMarker /\ ev.Data # EmptyStr}

PartialInit ==
    /\ sseInput \in SeqsUpTo(WholeEvents, 1)
    /\ ssePartial \in [lines : SeqsUpTo(FieldLines, MaxPartialLines),
                       tail : FieldLines \cup {EmptyStr}]
    /\ sseLines = Serialize(sseInput) \o ssePartial.lines
    /\ sseDone = FALSE
    /\ sseOut = <<>>
    /\ StreamIdle /\ HandlerIdle /\ StoreIdle /\ CopilotIdle /\ InstructionsIdle /\ ModelsCacheIdle /\ CallIdle /\ ChatIdle /\ GetModelsIdle /\ CopilotStreamIdle /\ ClientIdle

SpecPartial == PartialInit /\ [][CallReadEvent]_vars

\* the lines received of the event that was cut off, the last one included
Received == ssePartial.lines \o (IF ssePartial.tail = EmptyStr THEN <<>> ELSE <<ssePartial.tail>>)

\* the values of the lines of a field, in order
ValuesOf(ls, field) ==
    LET kept == SelectSeq(ls, LAMBDA l : HasPrefix(l, field))
    IN [i \in 1..Len(kept) |-> TrimSpace(Tail(kept[i]))]

LastOr(values, zero) == IF values = <<>> THEN zero ELSE values[Len(values)]

\* the event made of every field received before the end of the input
PartialEvent ==
    [Event |-> LastOr(ValuesOf(Received, "event:"), EmptyStr),
     Data |-> JoinLines(ValuesOf(Received, "data:")),
     ID |-> LastOr(ValuesOf(Received, "id:"), EmptyStr)]

\* the reader has reported the end of the stream
ReportedEOF == \E k \in DOMAIN sseOut : sseOut[k].eof

FirstEOF == CHOOSE k \in DOMAIN sseOut : sseOut[k].eof /\ \A j \in 1..(k - 1) : ~sseOut[j].eof

\* C31: when the input ends inside an event that has any content, the reader
\* returns that event, with every field received, the unterminated last line
\* included, before it reports the end of the stream.
C31_PartialEventReturned ==
    (ReportedEOF /\ Received # <<>>)
    => /\ FirstEOF = Len(sseInput) + 2
       /\ sseOut[FirstEOF - 1] = SseReturn(PartialEvent)

(***************************************************************************)
(* chatgpt transformMessages (part_004:171-327) and stripInputIDs          *)
(* (146-169).  "\n" is one token of a string.                              *)
(***************************************************************************)
MaxInputMessages == 3   \* messages of one request

NoImage == [present |-> FALSE, URL |-> EmptyStr, Detail |-> ""]
TextPart(text) == [Type |-> "text", Text |-> text, ImageURL |-> NoImage]
ImagePart(url, detail) ==
    [Type |-> "image_url", Text |-> EmptyStr,
     ImageURL |-> [present |-> TRUE, URL |-> url, Detail |-> detail]]

ReqToolCall(id, name, args) == [ID |-> id, Name |-> name, Arguments |-> args]

ApiMessage(role, content, toolCalls, toolCallID) ==
    [Role |-> role, Content |-> content, ToolCalls |-> toolCalls, ToolCallID |-> toolCallID]

InputItem(type) ==
    [Type |-> type, Role |-> "", Content |-> NilContent, ID |-> EmptyStr,
     CallID |-> EmptyStr, Name |-> "", Arguments |-> EmptyStr, Output |-> EmptyStr,
     Status |-> ""]

ContentBlock(type) == [Type |-> type, Text |-> EmptyStr, ImageURL |-> EmptyStr, Detail |-> ""]

\* lines 180-188: the first pass over the messages
RECURSIVE SystemContent(_, _)
SystemContent(messages, systemContent) ==
    IF messages = <<>> THEN systemContent
    ELSE LET msg == Head(messages)
             content == GetContentString(msg.Content)
         IN SystemContent(Tail(messages),
                IF msg.Role = "system" /\ content # EmptyStr
                THEN (IF systemContent # EmptyStr THEN systemContent \o <<"\n">>
                      ELSE systemContent) \o content
                ELSE systemContent)

\* lines 194-201: the synthetic user message
SystemItems(systemContent) ==
    IF systemContent # EmptyStr
    THEN <<[InputItem("message") EXCEPT !.Role = "user",
                                        !.Content = SetContentString(systemContent)]>>
    ELSE <<>>

\* lines 233-253 and 291-313: the content blocks of the parts
RECURSIVE Blocks(_)
Blocks(parts) ==
    IF parts = <<>> THEN <<>>
    ELSE LET part == Head(parts) IN
         (IF part.Type = "text"
          THEN <<[ContentBlock("input_text") EXCEPT !.Text = part.Text]>>
          ELSE IF part.Type = "image_url" /\ part.ImageURL.present
          THEN <<[ContentBlock("input_image") EXCEPT !.ImageURL = part.ImageURL.URL,
                                                     !.Detail = part.ImageURL.Detail]>>
          ELSE <<>>)
         \o Blocks(Tail(parts))

\* lines 259-270: one function_call item per tool call
FunctionCallItems(toolCalls) ==
    [i \in 1..Len(toolCalls) |->
        [InputItem("function_call") EXCEPT !.ID = toolCalls[i].ID,
                                           !.CallID = toolCalls[i].ID,
                                           !.Name = toolCalls[i].Name,
                                           !.Arguments = toolCalls[i].Arguments,
                                           !.Status = "completed"]]

\* lines 222-257: the content message of an assistant message with tool calls
AssistantContentItems(msg, item) ==
    IF GetContentString(msg.Content) # EmptyStr
    THEN <<[item EXCEPT !.Content = SetContentString(GetContentString(msg.Content))]>>
    ELSE IF Len(GetContentParts(msg.Content)) > 0
            /\ Len(Blocks(GetContentParts(msg.Content))) > 0
    THEN <<[item EXCEPT !.Content = MarshalArray(Blocks(GetContentParts(msg.Content)))]>>
    ELSE <<>>

\* a translation of tool messages that keeps the role
ToolItemWithRole(msg) ==
    <<[InputItem("function_call_output") EXCEPT !.Role = msg.Role,
                                                !.CallID = msg.ToolCallID,
                                                !.Output = GetContentString(msg.Content)]>>

\* lines 208-215: a tool result, without role
ToolItem(msg) ==
    <<[InputItem("function_call_output") EXCEPT !.CallID = msg.ToolCallID,
                                                !.Output = GetContentString(msg.Content)]>>

\* lines 204-324: the items of one message of the second pass
MessageItems(msg) ==
    LET item == [InputItem("message") EXCEPT !.Role = msg.Role]
        parts == GetContentParts(msg.Content)
    IN IF msg.Role = "tool" THEN ToolItem(msg)
       ELSE IF msg.Role = "assistant" /\ Len(msg.ToolCalls) > 0
       THEN AssistantContentItems(msg, item) \o FunctionCallItems(msg.ToolCalls)
       ELSE IF Len(parts) = 0
       THEN <<[item EXCEPT !.Content = SetContentString(EmptyStr)]>>
       ELSE IF Len(parts) = 1 /\ parts[1].Type = "text"
       THEN <<[item EXCEPT !.Content = SetContentString(parts[1].Text)]>>
       ELSE IF Len(Blocks(parts)) > 0
       THEN <<[item EXCEPT !.Content = MarshalArray(Blocks(parts))]>>
       ELSE <<item>>

RECURSIVE SecondPass(_)
SecondPass(messages) ==
    IF messages = <<>> THEN <<>>
    ELSE (IF Head(messages).Role = "system" THEN <<>> ELSE MessageItems(Head(messages)))
         \o SecondPass(Tail(messages))

transformMessages(messages) ==
    SystemItems(SystemContent(messages, EmptyStr)) \o SecondPass(messages)

\* lines 146-169
stripInputIDs(input) ==
    LET kept == SelectSeq(input, LAMBDA item : item.Type # "item_reference")
    IN [i \in 1..Len(kept) |-> [kept[i] EXCEPT !.ID = EmptyStr]]

\* the messages tried
InputMessages ==
    { ApiMessage("system", SetContentString(Str("s1")), <<>>, EmptyStr),
      ApiMessage("system", SetContentString(Str("s2")), <<>>, EmptyStr),
      ApiMessage("system", MarshalArray(<<TextPart(Str("s3"))>>), <<>>, EmptyStr),
      ApiMessage("user", SetContentString(Str("u")), <<>>, EmptyStr),
      ApiMessage("user", MarshalArray(<<TextPart(Str("t")), ImagePart(Str("img"), "low")>>),
                 <<>>, EmptyStr),
      ApiMessage("assistant", SetContentString(Str("a")),
                 <<ReqToolCall(Str("c1"), "f", Str("{}"))>>, EmptyStr),
      ApiMessage("assistant", NilContent,
                 <<ReqToolCall(Str("c1"), "f", Str("{}")), ReqToolCall(Str("c2"), "g", Str("{}"))>>,
                 EmptyStr),
      ApiMessage("assistant", SetContentString(Str("b")), <<>>, EmptyStr),
      ApiMessage("tool", SetContentString(Str("out")), <<>>, Str("c1")),
      ApiMessage("tool", SetContentString(Str("out")), <<>>, Str("c2")) }

MessagesInit ==
    /\ fnArg \in SeqsUpTo(InputMessages, MaxInputMessages)
    /\ fnRes = [done |-> FALSE]
    /\ StreamIdle /\ HandlerIdle /\ StoreIdle /\ CopilotIdle /\ InstructionsIdle /\ ModelsCacheIdle /\ ReaderIdle /\ ChatIdle /\ GetModelsIdle /\ CopilotStreamIdle /\ ClientIdle /\ BodyIdle

\* TransformRequest lines 31-37: transformMessages, then stripInputIDs
CallTransformMessages ==
    /\ ~fnRes.done
    /\ fnRes' = [done |-> TRUE,
                 input |-> transformMessages(fnArg),
                 sent |-> stripInputIDs(transformMessages(fnArg))]
    /\ UNCHANGED <<fnArg, othersOfCall>>

SpecMessages == MessagesInit /\ [][CallTransformMessages]_vars

\* the system messages of the request, and the texts they carry: the string
\* of a string content, the text parts of an array content
SystemMessages == SelectSeq(fnArg, LAMBDA msg : msg.Role = "system")

RECURSIVE TextsOfParts(_)
TextsOfParts(parts) ==
    IF parts = <<>> THEN <<>>
    ELSE (IF Head(parts).Type = "text" /\ Head(parts).Text # EmptyStr
          THEN <<Head(parts).Text>> ELSE <<>>) \o TextsOfParts(Tail(parts))

TextsOf(msg) ==
    IF ~msg.Content.set THEN <<>>
    ELSE IF msg.Content.kind = "string"
    THEN (IF msg.Content.json # EmptyStr THEN <<msg.Content.json>> ELSE <<>>)
    ELSE TextsOfParts(msg.Content.json)

RECURSIVE SystemTexts(_)
SystemTexts(msgs) ==
    IF msgs = <<>> THEN <<>> ELSE TextsOf(Head(msgs)) \o SystemTexts(Tail(msgs))

SyntheticMessage(text) ==
    [InputItem("message") EXCEPT !.Role = "user", !.Content = SetContentString(text)]

\* C32: no emitted item has role system; when the request has system
\* messages, the first item is one synthetic user message whose text is the
\* texts of all system messages, in order, joined with "\n", and the items
\* after it are those of the other messages; without a system message no
\* item is added.
C32_SystemToUser ==
    fnRes.done
    => /\ \A i \in DOMAIN fnRes.input : fnRes.input[i].Role # "system"
       /\ SystemTexts(SystemMessages) # <<>>
          => /\ Len(fnRes.input) >= 1
             /\ fnRes.input[1] = SyntheticMessage(JoinLines(SystemTexts(SystemMessages)))
             /\ Tail(fnRes.input) = SecondPass(fnArg)
       /\ SystemMessages = <<>> => fnRes.input = SecondPass(fnArg)

\* the messages of the second pass
NonSystemMessages == SelectSeq(fnArg, LAMBDA msg : msg.Role # "system")

HasToolCalls(msg) == msg.Role = "assistant" /\ Len(msg.ToolCalls) > 0
HasContent(msg) == msg.Content.set /\ msg.Content.json # <<>>

\* the number of items a message is translated to
ItemCount(msg) ==
    IF msg.Role = "tool" THEN 1
    ELSE IF HasToolCalls(msg) THEN (IF HasContent(msg) THEN 1 ELSE 0) + Len(msg.ToolCalls)
    ELSE 1

\* the items are the translation of the message
ItemsOf(items, msg) ==
    IF msg.Role = "tool"
    THEN /\ items[1].Type = "function_call_output"
         /\ items[1].CallID = msg.ToolCallID
         /\ items[1].Role = ""
    ELSE IF HasToolCalls(msg)
    THEN LET c == IF HasContent(msg) THEN 1 ELSE 0 IN
         /\ c = 1 => /\ items[1].Type = "message" /\ items[1].Role = "assistant"
                     /\ items[1].Content.set
         /\ \A k \in 1..Len(msg.ToolCalls) :
               /\ items[c + k].Type = "function_call"
               /\ items[c + k].CallID = msg.ToolCalls[k].ID
               /\ items[c + k].Status = "completed"
               /\ items[c + k].Role = ""
    ELSE items[1].Type = "message" /\ items[1].Role = msg.Role

RECURSIVE Translated(_, _)
Translated(items, msgs) ==
    IF msgs = <<>> THEN items = <<>>
    ELSE LET n == ItemCount(Head(msgs)) IN
         /\ Len(items) >= n
         /\ ItemsOf(SubSeq(items, 1, n), Head(msgs))
         /\ Translated(SubSeq(items, n + 1, Len(items)), Tail(msgs))

\* the items sent, without the synthetic message of the system texts
SentOfSecondPass ==
    SubSeq(fnRes.sent, Len(SystemItems(SystemContent(fnArg, EmptyStr))) + 1, Len(fnRes.sent))

\* C33: the items sent for the non-system messages follow the order of the
\* messages: a tool message gives one function_call_output item with its
\* tool_call_id as call_id and no role; an assistant message with tool calls
\* gives its content message, when it has content, then one function_call
\* item per tool call, in order, with the id of the call as call_id and
\* status completed; and after stripInputIDs no item has an id while every
\* call_id is the one transformMessages set.
C33_ItemsInOrder ==
    fnRes.done
    => /\ Translated(SentOfSecondPass, NonSystemMessages)
       /\ Len(fnRes.sent) = Len(fnRes.input)
       /\ \A i \in DOMAIN fnRes.sent :
             /\ fnRes.sent[i].ID = EmptyStr
             /\ fnRes.sent[i] = [fnRes.input[i] EXCEPT !.ID = EmptyStr]

\* a request with an assistant message with content and a tool call, a tool
\* result, and an assistant message without content with two tool calls
C33_Witness ==
    /\ fnRes.done
    /\ Len(fnArg) = 3
    /\ HasToolCalls(fnArg[1]) /\ HasContent(fnArg[1])
    /\ fnArg[2].Role = "tool"
    /\ HasToolCalls(fnArg[3]) /\ ~HasContent(fnArg[3]) /\ Len(fnArg[3].ToolCalls) = 2
    /\ Len(fnRes.sent) = 5
    /\ \E i \in DOMAIN fnRes.input : fnRes.input[i].ID # EmptyStr

(***************************************************************************)
(* Order of the chunks ProcessEvent emits for one ChatGPT stream.          *)
(***************************************************************************)
\* C34: the chunk with a finish_reason is the last chunk with output: no
\* chunk emitted after it carries delta content, refusal, reasoning or
\* tool_calls.
C34_FinishIsTerminal ==
    \A i, j \in 1..Len(emitted) :
        (i < j /\ HasFinish(emitted[i])) => ~CarriesOutput(emitted[j])

\* the entries of delta.tool_calls of the chunks emitted, in order
StreamedToolCalls ==
    Concat(SeqMap(LAMBDA c : IF Len(c.Choices) > 0 THEN c.Choices[1].Delta.ToolCalls ELSE <<>>,
                  emitted))

\* the output_item.added events of tool calls the upstream has sent
AddedCalls ==
    SelectSeq(events, LAMBDA ev : /\ ev.Event = "response.output_item.added"
                                  /\ ~ev.malformed
                                  /\ IsCallType(ev.Item.Type))

\* the upstream gives every tool call one output_index of its own
DistinctOutputIndices ==
    \A i, j \in DOMAIN AddedCalls :
        (CallIDOf(AddedCalls[i].Item) = CallIDOf(AddedCalls[j].Item))
        <=> (AddedCalls[i].OutputIndex = AddedCalls[j].OutputIndex)

\* NextToolIndex is greater than every index of the tool-call table
NextIndexIsFree == \A idx \in DOMAIN state.ToolCalls : idx < state.NextToolIndex

\* C35: when the upstream gives every tool call its own output_index, no
\* two tool calls with different call ids are streamed with the same index,
\* whatever the order of the output_item.added and web-search progress
\* events, and NextToolIndex is greater than every index of the tool-call
\* table.
C35_UniqueIndices ==
    DistinctOutputIndices
    => /\ \A i, j \in DOMAIN StreamedToolCalls :
             (StreamedToolCalls[i].ID # "" /\ StreamedToolCalls[j].ID # ""
                 /\ StreamedToolCalls[i].Index = StreamedToolCalls[j].Index)
             => StreamedToolCalls[i].ID = StreamedToolCalls[j].ID
       /\ NextIndexIsFree

\* the think tags among the content the stream has emitted
OpenTags == CountOf("<think>", StreamedContent(emitted))
CloseTags == CountOf("</think>", StreamedContent(emitted))

\* C36: ThinkTagOpen and ThinkTagClosed are never both true; ThinkTagClosed
\* is true exactly when "</think>" has been emitted, so it stays true, and
\* ThinkTagOpen exactly when "<think>" has been emitted and "</think>" has
\* not, so the tag is not reopened; a stream emits at most one "<think>" and
\* at most one "</think>", and "</think>" only after "<think>".
C36_ThinkTagOnce ==
    LET text == StreamedContent(emitted) IN
    /\ ~(state.ThinkTagOpen /\ state.ThinkTagClosed)
    /\ state.ThinkTagClosed <=> CloseTags = 1
    /\ state.ThinkTagOpen <=> (OpenTags = 1 /\ CloseTags = 0)
    /\ OpenTags <= 1 /\ CloseTags <= 1
    /\ \A k \in 1..Len(text) :
          text[k] = "</think>" => \E i \in 1..(k - 1) : text[i] = "<think>"

\* the tag was opened and closed, and a reasoning delta came after that
C36_Witness ==
    /\ state.ThinkTagClosed
    /\ OpenTags = 1 /\ CloseTags = 1
    /\ Len(events) = 3
    /\ events[3].Event = "response.reasoning_summary_text.delta"
    /\ ~events[3].malformed

(***************************************************************************)
(* SpecDelete: the goroutines of a logged-in process call Get*Credentials  *)
(* and DeleteCredentials (part_016:76-201, 261-271) on the same provider,  *)
(* in any interleaving; nobody saves.                                      *)
(***************************************************************************)
LoggedIn ==
    { Marshal(OAuthCredentials("oauth", Str("a1"), Str("r1"), EmptyStr, 100, EmptyStr, EmptyStr)),
      Marshal(APIKeyCredentials("api_key", Str("k1"), 7)) }

DeleteInit ==
    /\ disk \in {Put(EmptyMap, PID, f) : f \in LoggedIn}
    /\ cache = EmptyMap
    /\ heap = <<>>
    /\ saved = EmptyMap
    /\ lastGet = [valid |-> FALSE]
    /\ refreshLock = NilRef
    /\ now = 0
    /\ tpc = [t \in Threads |-> "idle"]
    /\ tloc = [t \in Threads |-> NoLocals]
    /\ posts = <<>>
    /\ postsInFlight = {}
    /\ StreamIdle /\ HandlerIdle /\ CopilotIdle /\ InstructionsIdle /\ ModelsCacheIdle /\ CallIdle /\ ReaderIdle /\ ChatIdle /\ GetModelsIdle /\ CopilotStreamIdle /\ ClientIdle /\ BodyIdle

DeleteNext ==
    \E t \in Threads :
        \/ \E kind \in {OAuthKind, APIKeyKind} : CallGet(t, kind)
        \/ GetLookup(t)
        \/ GetEvict(t)
        \/ GetReadFile(t)
        \/ GetFill(t)
        \/ DeleteCache(t)
        \/ DeleteFile(t)

SpecDelete == DeleteInit /\ [][DeleteNext]_vars

\* a DeleteCredentials has returned and its caller has made no call since
DeleteReturned == \E t \in Threads : tloc[t].op = "Delete" /\ tpc[t] = "idle"

\* no store operation is in progress
StoreQuiet == \A t \in Threads : tpc[t] \in {"idle", "off", "returned"}

\* C37: once DeleteCredentials has returned and the calls that were in
\* flight with it are over, the credentials file is absent and the cache
\* holds no entry for the provider, so that every Get*Credentials called
\* from then on finds neither and fails with the not-logged-in error.
C37_DeletedStaysDeleted ==
    (DeleteReturned /\ StoreQuiet) => (~Has(disk, PID) /\ ~Has(cache, PID))

(***************************************************************************)
(* SpecSave: the goroutines of a process call Save*Credentials             *)
(* (part_016:205-258) on the same provider, in any interleaving.           *)
(***************************************************************************)
SaveInit ==
    /\ disk = EmptyMap
    /\ cache = EmptyMap
    /\ heap = <<>>
    /\ saved = EmptyMap
    /\ lastGet = [valid |-> FALSE]
    /\ refreshLock = NilRef
    /\ now = 0
    /\ tpc = [t \in Threads |-> "idle"]
    /\ tloc = [t \in Threads |-> NoLocals]
    /\ posts = <<>>
    /\ postsInFlight = {}
    /\ StreamIdle /\ HandlerIdle /\ CopilotIdle /\ InstructionsIdle /\ ModelsCacheIdle /\ CallIdle /\ ReaderIdle /\ ChatIdle /\ GetModelsIdle /\ CopilotStreamIdle /\ ClientIdle /\ BodyIdle

SaveNext ==
    \E t \in Threads :
        \/ \E c \in CallerCredentials : CallSave(t, c)
        \/ SaveWrite(t)
        \/ SaveCache(t)

SpecSave == SaveInit /\ [][SaveNext]_vars

\* the record of the cached credential, as the file would hold it
CachedRecord == Marshal(heap[cache[PID]])

\* C38: whenever no store operation is in progress, the cached credential
\* of the provider is the record in its file, whatever the interleaving of
\* the Save*Credentials calls was.
C38_CacheIsFile ==
    (StoreQuiet /\ Has(cache, PID)) => (Has(disk, PID) /\ CachedRecord = disk[PID])

\* the credential the cache holds for the provider
CachedCredential == IF Has(cache, PID) THEN heap[cache[PID]] ELSE NoCredentials

\* the token endpoint answers the POST of t with a failure
FailedResponse(t) == tpc[t] = "F347" /\ tpc'[t] = "Rret"

\* t is about to return from a refresh whose POST failed
Failing(t) ==
    /\ tpc[t] = "Rret" /\ tloc[t].err
    /\ Len(posts) >= 1 /\ posts[Len(posts)].by = t /\ ~posts[Len(posts)].ok

RecordUnchanged == disk' = disk /\ CachedCredential' = CachedCredential

ModelNames == {"a", "d"}
mcRest == <<refreshStarted, stopRefresh, refreshDone, mcTask, mcpc, mcCalls, mcPanic>>

\* line 113: supported := c.modelIDs[modelID]
Supported(modelID) == modelID \in modelIDs

SupportsRecord(modelID) == [valid |-> TRUE, id |-> modelID, supported |-> Supported(modelID)]

\* lines 107-114: under the read lock, an empty set sends the call into
\* GetModels; a set that is not empty is read at once
CallSupportsModel(t, modelID) ==
    /\ gmpc[t].pc = "idle" /\ smPending[t] = NoModel /\ mcMu = 0
    /\ IF modelIDs = {}
       THEN /\ gmCalls < MaxGetCalls
            /\ gmCalls' = gmCalls + 1
            /\ gmpc' = [gmpc EXCEPT ![t] = [pc |-> "rlock"]]
            /\ smPending' = [smPending EXCEPT ![t] = modelID]
            /\ UNCHANGED lastSupports
       ELSE /\ lastSupports' = [lastSupports EXCEPT ![t] = SupportsRecord(modelID)]
            /\ UNCHANGED <<gmCalls, gmpc, smPending>>
    /\ UNCHANGED <<models, modelIDs, fetchedAt, gmNow, gmDisk, gmSaves, lastModels, cacheTTL,
                   mcMu, mcRest, othersOfGet>>

\* lines 111-114: GetModels has returned; the set is read under the read lock
SupportsRead(t) ==
    /\ smPending[t] # NoModel /\ gmpc[t].pc = "idle" /\ mcMu = 0
    /\ lastSupports' = [lastSupports EXCEPT ![t] = SupportsRecord(smPending[t])]
    /\ smPending' = [smPending EXCEPT ![t] = NoModel]
    /\ UNCHANGED <<models, modelIDs, fetchedAt, gmNow, gmDisk, gmSaves, gmpc, gmCalls,
                   lastModels, cacheTTL, mcMu, mcRest, othersOfGet>>

SupportsNext ==
    \/ GetModelsNext
    \/ \E t \in McThreads, modelID \in ModelNames : CallSupportsModel(t, modelID)
    \/ \E t \in McThreads : SupportsRead(t)

SpecSupports == GetModelsInit /\ [][SupportsNext]_vars

\* a GetModels call of t returns in this step
GetModelsReturns(t) == gmpc[t].pc # "idle" /\ gmpc'[t].pc = "idle"

\* C40: at the point where a GetModels call returns its list, every id for
\* which SupportsModel answers true is an id of that list.
C40_SetMatchesList ==
    [][\A t \in McThreads :
          GetModelsReturns(t)
          => \A modelID \in ModelNames :
                Supported(modelID)' => modelID \in IDsOf(lastModels'[t].ret)]_vars

====
